---------------------------- MODULE Spec2Model ----------------------------
(***************************************************************************)
(* A model of the scene-release parser (src/src/parser.rs, src/src/types.rs). *)
(*                                                                         *)
(* Strings are sequences of one-character strings.  The regular            *)
(* expressions of parser.rs are written as data (sequences of quantified   *)
(* character classes, anchors and group marks) and are run by a            *)
(* backtracking matcher with the leftmost-first semantics of the regex     *)
(* crate.  Every call of the public API is a small sequential process      *)
(* (a frame) owned by a thread; the ReleaseParser object is shared.        *)
(***************************************************************************)
EXTENDS Integers, Sequences, FiniteSets, TLC

(***************************************************************************)
(* Characters                                                              *)
(***************************************************************************)
UpperSeq == <<"A","B","C","D","E","F","G","H","I","J","K","L","M",
              "N","O","P","Q","R","S","T","U","V","W","X","Y","Z">>

LowerSeq == <<"a","b","c","d","e","f","g","h","i","j","k","l","m",
              "n","o","p","q","r","s","t","u","v","w","x","y","z">>

DigitSeq == <<"0","1","2","3","4","5","6","7","8","9">>

Upper == {UpperSeq[i] : i \in 1..26}

Lower == {LowerSeq[i] : i \in 1..26}

AsciiDigit == {DigitSeq[i] : i \in 1..10}

\* A decimal digit outside ASCII (ARABIC-INDIC DIGIT THREE).  The regex crate's
\* \d and \w are Unicode classes and match it; str::parse::<uN>() rejects it.
ArabicThree == "U+0663"

\* \d of the regex crate
Digit == AsciiDigit \cup {ArabicThree}

\* \w of the regex crate (restricted to the characters of the model)
Word == Upper \cup Lower \cup Digit \cup {"_"}

\* \s of the regex crate (restricted to the characters of the model)
Space == {" "}

\* the other case of an ASCII letter, the character itself otherwise
SwapCase(c) ==
    IF c \in Upper THEN LowerSeq[CHOOSE i \in 1..26 : UpperSeq[i] = c]
    ELSE IF c \in Lower THEN UpperSeq[CHOOSE i \in 1..26 : LowerSeq[i] = c]
    ELSE c

\* char::to_ascii_lowercase
ToLower(c) == IF c \in Upper THEN SwapCase(c) ELSE c

\* str::to_lowercase / the folding behind eq_ignore_ascii_case
LowerStr(s) == [i \in 1..Len(s) |-> ToLower(s[i])]

\* str::eq_ignore_ascii_case
EqIgnoreAsciiCase(a, b) == LowerStr(a) = LowerStr(b)

DigitVal(c) == (CHOOSE i \in 1..10 : DigitSeq[i] = c) - 1

\* str::parse::<u128>() / parse::<u16>() on a run of \d characters: the value, or
\* -1 for Err (an empty string or a digit outside ASCII).  The runs the patterns
\* capture have at most four digits, so no value overflows u16 or u128.
RECURSIVE ParseValue(_)
ParseValue(ds) ==
    IF Len(ds) = 0 THEN 0
    ELSE 10 * ParseValue(SubSeq(ds, 1, Len(ds) - 1)) + DigitVal(ds[Len(ds)])

ParseInt(ds) ==
    IF Len(ds) = 0 \/ \E i \in 1..Len(ds) : ds[i] \notin AsciiDigit THEN -1
    ELSE ParseValue(ds)

\* str::contains / str::find for a literal needle
ContainsAt(s, needle, i) ==
    /\ i + Len(needle) - 1 <= Len(s)
    /\ \A j \in 1..Len(needle) : s[i + j - 1] = needle[j]

Contains(s, needle) == \E i \in 1..(Len(s) + 1) : ContainsAt(s, needle, i)

(***************************************************************************)
(* Regular expressions                                                     *)
(***************************************************************************)
\* "no upper limit" of a quantifier (*, +, {n,})
Unbounded == 1000 * 1000

Atom(k, cs, neg, lo, hi, lazy, g) ==
    [k |-> k, cs |-> cs, neg |-> neg, lo |-> lo, hi |-> hi, lazy |-> lazy, g |-> g]

\* one character of the set
One(cs) == Atom("set", cs, FALSE, 1, 1, FALSE, 0)

\* cs{lo,hi}, greedy
Rep(cs, lo, hi) == Atom("set", cs, FALSE, lo, hi, FALSE, 0)

\* [^cs]{lo,hi}, greedy
RepNot(cs, lo, hi) == Atom("set", cs, TRUE, lo, hi, FALSE, 0)

\* [^cs]{lo,hi}?, lazy
RepNotLazy(cs, lo, hi) == Atom("set", cs, TRUE, lo, hi, TRUE, 0)

\* \b
WordB == Atom("wb", {}, FALSE, 0, 0, FALSE, 0)

\* $
Eos == Atom("eos", {}, FALSE, 0, 0, FALSE, 0)

\* ^
Bos == Atom("bos", {}, FALSE, 0, 0, FALSE, 0)

\* ( and ) of capture group g
Open(g) == Atom("open", {}, FALSE, 0, 0, FALSE, g)

Close(g) == Atom("close", {}, FALSE, 0, 0, FALSE, g)

\* (?:a|b|...): alternatives without groups of their own, the first having priority
AnyOf(alts) == [k |-> "alt", alts |-> alts, g |-> 0]

\* (?:a)?
Opt(pat) == AnyOf(<<pat, <<>>>>)

\* a literal, case-sensitive
Lit(str) == [i \in 1..Len(str) |-> One({str[i]})]

\* a literal under (?i)
LitI(str) == [i \in 1..Len(str) |-> One({str[i], SwapCase(str[i])})]

InClass(a, c) == IF a.neg THEN c \notin a.cs ELSE c \in a.cs

\* \b holds at position i (between s[i-1] and s[i])
IsWordBoundary(s, i) ==
    LET before == i > 1 /\ s[i - 1] \in Word
        after  == i <= Len(s) /\ s[i] \in Word
    IN  before /= after

\* the length of the longest run of class characters from position i, at most hi
RECURSIVE RunLen(_, _, _, _)
RunLen(s, i, a, n) ==
    IF n < a.hi /\ i + n <= Len(s) /\ InClass(a, s[i + n])
    THEN RunLen(s, i, a, n + 1)
    ELSE n

NoMatch == [ok |-> FALSE, start |-> 0, end |-> 0, caps |-> <<>>]

\* a zero-width atom (\b, ^, $; a group mark always) holds at position i
Holds(a, s, i) ==
    CASE a.k = "wb"  -> IsWordBoundary(s, i)
      [] a.k = "bos" -> i = 1
      [] a.k = "eos" -> i = Len(s) + 1
      [] OTHER       -> TRUE

\* the groups after the atom a at position i
Marked(a, caps, i) ==
    CASE a.k = "open"  -> [caps EXCEPT ![a.g] = <<i, i>>]
      [] a.k = "close" -> [caps EXCEPT ![a.g] = <<caps[a.g][1], i>>]
      [] OTHER         -> caps

\* the first match if there is one, the other otherwise
OrElse(first, other) == IF first.ok THEN first ELSE other

\* the first match of a list of attempts, none if all failed
FirstOk(tries) ==
    IF \A n \in DOMAIN tries : ~tries[n].ok THEN NoMatch
    ELSE tries[CHOOSE n \in DOMAIN tries :
                   tries[n].ok /\ \A m \in DOMAIN tries : m < n => ~tries[m].ok]

\* Match atoms k.. of pat against s from position i; caps holds the groups seen
\* so far.  Quantifier counts are tried in priority order (greedy: longest first,
\* lazy: shortest first) and the first that lets the rest match wins.
RECURSIVE MatchFrom(_, _, _, _, _)
RECURSIVE Quantified(_, _, _, _, _, _)
RECURSIVE TryAlts(_, _, _, _, _)
MatchFrom(pat, s, k, i, caps) ==
    IF k > Len(pat) THEN [ok |-> TRUE, start |-> 0, end |-> i, caps |-> caps]
    ELSE IF pat[k].k = "set" /\ pat[k].lo = 1 /\ pat[k].hi = 1
    THEN (IF i <= Len(s) /\ InClass(pat[k], s[i])
          THEN MatchFrom(pat, s, k + 1, i + 1, caps) ELSE NoMatch)
    ELSE IF pat[k].k = "set" THEN Quantified(pat, s, k, i, caps, RunLen(s, i, pat[k], 0))
    ELSE IF pat[k].k = "alt" THEN TryAlts(pat, s, k, i, caps)
    ELSE IF Holds(pat[k], s, i) THEN MatchFrom(pat, s, k + 1, i, Marked(pat[k], caps, i))
    ELSE NoMatch

\* the quantified class pat[k], of which run characters stand at position i
Quantified(pat, s, k, i, caps, run) ==
    IF run < pat[k].lo THEN NoMatch
    ELSE FirstOk([c \in 1..(run - pat[k].lo + 1) |->
                     MatchFrom(pat, s, k + 1,
                               i + (IF pat[k].lazy THEN pat[k].lo + c - 1 ELSE run - c + 1),
                               caps)])

\* the group (?:a|b|...) at pat[k]: each alternative followed by the rest of
\* the pattern; the first alternative, in order, that lets the rest match wins
TryAlts(pat, s, k, i, caps) ==
    FirstOk([n \in 1..Len(pat[k].alts) |->
                MatchFrom(pat[k].alts[n] \o SubSeq(pat, k + 1, Len(pat)), s, 1, i, caps)])

\* the number of capture groups of a pattern
NGroups(pat) == Cardinality({k \in 1..Len(pat) : pat[k].k = "open"})

\* a pattern whose first atom is a character that must stand at position i
\* can match there only if it does
MayStart(pat, s, i) ==
    \/ pat = <<>>
    \/ pat[1].k /= "set"
    \/ pat[1].lo = 0
    \/ (i <= Len(s) /\ InClass(pat[1], s[i]))

\* A regex is a sequence of alternatives (patterns), the first having priority:
\* the match of alternatives n.. starting exactly at position i, if any.
RECURSIVE MatchAlt(_, _, _, _)
MatchAlt(re, s, i, n) ==
    IF n > Len(re) THEN NoMatch
    ELSE OrElse([MatchFrom(re[n], s, 1, i, [g \in 1..NGroups(re[n]) |-> <<0, 0>>])
                    EXCEPT !.start = i],
                MatchAlt(re, s, i, n + 1))

\* Regex::captures / Regex::find from position i: the leftmost match
FindFrom(re, s, i) ==
    FirstOk([j \in i..(Len(s) + 1) |->
                IF \E n \in DOMAIN re : MayStart(re[n], s, j) THEN MatchAlt(re, s, j, 1)
                ELSE NoMatch])

\* Regex::captures
Captures(re, s) == FindFrom(re, s, 1)

\* Regex::is_match
IsMatch(re, s) == Captures(re, s).ok

\* Regex::captures_iter: the successive non-overlapping matches
RECURSIVE CapturesIterFrom(_, _, _)
RECURSIVE MatchThenRest(_, _, _)
CapturesIterFrom(re, s, i) == MatchThenRest(re, s, FindFrom(re, s, i))

\* the match r, if it is one, and the matches after it
MatchThenRest(re, s, r) ==
    IF ~r.ok THEN <<>>
    ELSE <<r>> \o CapturesIterFrom(re, s, IF r.end > r.start THEN r.end ELSE r.end + 1)

CapturesIter(re, s) == CapturesIterFrom(re, s, 1)

\* str::split(sep).collect()
RECURSIVE Split(_, _)
Split(s, sep) ==
    IF \E i \in 1..Len(s) : s[i] = sep
    THEN LET i == CHOOSE k \in 1..Len(s) : s[k] = sep /\ \A j \in 1..(k - 1) : s[j] /= sep
         IN  <<SubSeq(s, 1, i - 1)>> \o Split(SubSeq(s, i + 1, Len(s)), sep)
    ELSE <<s>>

\* cap.get(g).as_str()
Group(s, r, g) == SubSeq(s, r.caps[g][1], r.caps[g][2] - 1)

\* Regex::replace_all: s from position pos on, the matches ms[n..] replaced by rep
RECURSIVE ReplaceFrom(_, _, _, _, _)
ReplaceFrom(s, ms, rep, n, pos) ==
    IF n > Len(ms) THEN SubSeq(s, pos, Len(s))
    ELSE SubSeq(s, pos, ms[n].start - 1) \o rep \o ReplaceFrom(s, ms, rep, n + 1, ms[n].end)

\* (an empty string where the regex has no match is left as it is)
ReplaceAll(re, s, rep) ==
    IF s = <<>> /\ ~MatchAlt(re, s, 1, 1).ok THEN s
    ELSE ReplaceFrom(s, CapturesIter(re, s), rep, 1, 1)

\* str::replace of a literal
Replace(s, from, to) == ReplaceAll(<<Lit(from)>>, s, to)

\* str::trim
RECURSIVE TrimStart(_)
TrimStart(s) == IF Len(s) > 0 /\ s[1] \in Space THEN TrimStart(Tail(s)) ELSE s

RECURSIVE TrimEnd(_)
TrimEnd(s) ==
    IF Len(s) > 0 /\ s[Len(s)] \in Space THEN TrimEnd(SubSeq(s, 1, Len(s) - 1)) ELSE s

Trim(s) == TrimEnd(TrimStart(s))

\* str::split_whitespace().collect::<Vec<_>>().join(" ")
RECURSIVE JoinWords(_, _)
JoinWords(s, i) ==
    IF i > Len(s) THEN <<>>
    ELSE IF s[i] \in Space
    THEN (IF i > 1 /\ s[i - 1] \notin Space /\ \E j \in (i + 1)..Len(s) : s[j] \notin Space
          THEN <<" ">> ELSE <<>>) \o JoinWords(s, i + 1)
    ELSE <<s[i]>> \o JoinWords(s, i + 1)

(***************************************************************************)
(* Option<T>: None is the empty sequence, Some(x) the sequence <<x>>.      *)
(***************************************************************************)
None == <<>>

Some(x) == <<x>>

IsSome(o) == Len(o) = 1

\* the value of an Option, or the default
UnwrapOr(found, default) == IF IsSome(found) THEN found[1] ELSE default

\* the first element of a sequence of candidates that is Some, None if there is none
FirstSome(cands) ==
    IF \E i \in 1..Len(cands) : IsSome(cands[i])
    THEN cands[CHOOSE i \in 1..Len(cands) :
                   IsSome(cands[i]) /\ \A j \in 1..(i - 1) : ~IsSome(cands[j])]
    ELSE None

\* the first candidate if it is Some, the other otherwise
OrSome(first, other) == IF IsSome(first) THEN first ELSE other

(***************************************************************************)
(* extract_season_episode (parser.rs 379-495)                              *)
(***************************************************************************)
\* (?i)E(\d{1,3})E(\d{1,3})                                     line 385
ReEpisodePair ==
    << LitI(<<"E">>) \o <<Open(1), Rep(Digit, 1, 3), Close(1)>>
       \o LitI(<<"E">>) \o <<Open(2), Rep(Digit, 1, 3), Close(2)>> >>

\* (?i)\bE(\d{3})\b                                             line 401
ReEpisodeOnly ==
    << <<WordB>> \o LitI(<<"E">>) \o <<Open(1), Rep(Digit, 3, 3), Close(1), WordB>> >>

\* (?i)S\d+\s*$                                                 line 408
ReSeasonBefore ==
    << LitI(<<"S">>) \o <<Rep(Digit, 1, Unbounded), Rep(Space, 0, Unbounded), Eos>> >>

\* (?i)S(\d{1,2})E(\d{1,3})-E(\d{1,3})                          line 418
ReRange ==
    << LitI(<<"S">>) \o <<Open(1), Rep(Digit, 1, 2), Close(1)>>
       \o LitI(<<"E">>) \o <<Open(2), Rep(Digit, 1, 3), Close(2)>>
       \o Lit(<<"-">>) \o LitI(<<"E">>) \o <<Open(3), Rep(Digit, 1, 3), Close(3)>> >>

\* (?i)S(\d{1,2})E(\d{1,3})                                     line 437
ReSxxExx ==
    << LitI(<<"S">>) \o <<Open(1), Rep(Digit, 1, 2), Close(1)>>
       \o LitI(<<"E">>) \o <<Open(2), Rep(Digit, 1, 3), Close(2)>> >>

\* (?i)(\d{1,2})x(\d{1,3})                                      line 438
ReNxM ==
    << <<Open(1), Rep(Digit, 1, 2), Close(1)>> \o LitI(<<"x">>)
       \o <<Open(2), Rep(Digit, 1, 3), Close(2)>> >>

\* (?i)Season\s*(\d{1,2})\s*Episode\s*(\d{1,3})                 line 439
ReSeasonEpisodeWords ==
    << LitI(<<"S","e","a","s","o","n">>)
       \o <<Rep(Space, 0, Unbounded), Open(1), Rep(Digit, 1, 2), Close(1),
            Rep(Space, 0, Unbounded)>>
       \o LitI(<<"E","p","i","s","o","d","e">>)
       \o <<Rep(Space, 0, Unbounded), Open(2), Rep(Digit, 1, 3), Close(2)>> >>

\* (?i)S(\d{1,2})\s*-\s*(\d{1,3})                               line 456
ReAnimeS ==
    << LitI(<<"S">>) \o <<Open(1), Rep(Digit, 1, 2), Close(1), Rep(Space, 0, Unbounded)>>
       \o Lit(<<"-">>)
       \o <<Rep(Space, 0, Unbounded), Open(2), Rep(Digit, 1, 3), Close(2)>> >>

\* (\d{1,2})\s*-\s*(\d{1,3})                                    line 471
ReAnimeBare ==
    << <<Open(1), Rep(Digit, 1, 2), Close(1), Rep(Space, 0, Unbounded)>>
       \o Lit(<<"-">>)
       \o <<Rep(Space, 0, Unbounded), Open(2), Rep(Digit, 1, 3), Close(2)>> >>

\* the value Some((season, episode, episodes)) of extract_season_episode
SeasonEpisode(season, episode, episodes) ==
    Some([season |-> season, episode |-> episode, episodes |-> episodes])

\* for ep in ep_start..=ep_end { episodes.push(ep) }
RangeInclusive(ep_start, ep_end) ==
    IF ep_start <= ep_end
    THEN [i \in 1..(ep_end - ep_start + 1) |-> ep_start + i - 1]
    ELSE <<>>

\* lines 383-396: E01E02, no season (season 0 stands for "no season")
TierEpisodePair(release_name) ==
    LET caps == Captures(ReEpisodePair, release_name)
        ep1  == ParseInt(Group(release_name, caps, 1))
        ep2  == ParseInt(Group(release_name, caps, 2))
    IN  IF caps.ok /\ ep1 >= 0 /\ ep2 >= 0
        THEN SeasonEpisode(0, ep1, <<ep1, ep2>>)
        ELSE None

\* lines 398-415: E780, not directly after a season token
TierEpisodeOnly(release_name) ==
    LET caps    == Captures(ReEpisodeOnly, release_name)
        before  == SubSeq(release_name, 1, caps.start - 1)
        episode == ParseInt(Group(release_name, caps, 1))
    IN  IF caps.ok /\ ~IsMatch(ReSeasonBefore, before) /\ episode >= 0
        THEN SeasonEpisode(0, episode, <<episode>>)
        ELSE None

\* lines 417-433: S01E01-E03
TierRange(release_name) ==
    LET caps     == Captures(ReRange, release_name)
        season   == ParseInt(Group(release_name, caps, 1))
        ep_start == ParseInt(Group(release_name, caps, 2))
        ep_end   == ParseInt(Group(release_name, caps, 3))
    IN  IF caps.ok /\ season >= 0 /\ ep_start >= 0 /\ ep_end >= 0
        THEN SeasonEpisode(season, ep_start, RangeInclusive(ep_start, ep_end))
        ELSE None

\* one pattern of the list of lines 436-453
SinglePattern(re, release_name) ==
    LET caps    == Captures(re, release_name)
        season  == ParseInt(Group(release_name, caps, 1))
        episode == ParseInt(Group(release_name, caps, 2))
    IN  IF caps.ok /\ season >= 0 /\ episode >= 0
        THEN SeasonEpisode(season, episode, <<episode>>)
        ELSE None

\* lines 435-453: S01E01, 1x01, Season 1 Episode 1, in this order
TierSingle(release_name) ==
    LET p1 == SinglePattern(ReSxxExx, release_name)
        p2 == SinglePattern(ReNxM, release_name)
        p3 == SinglePattern(ReSeasonEpisodeWords, release_name)
    IN  IF IsSome(p1) THEN p1 ELSE IF IsSome(p2) THEN p2 ELSE p3

\* lines 455-483 without the bounds of lines 463 and 478
AnimePattern_NoBounds(re, release_name) ==
    LET caps    == Captures(re, release_name)
        season  == ParseInt(Group(release_name, caps, 1))
        episode == ParseInt(Group(release_name, caps, 2))
    IN  IF caps.ok /\ season >= 0 /\ episode >= 0
        THEN SeasonEpisode(season, episode, <<episode>>)
        ELSE None

\* lines 455-483: "S5 - 02" and "5 - 01", season in 1..20 and episode in 1..200
AnimePattern(re, release_name) ==
    LET caps    == Captures(re, release_name)
        season  == ParseInt(Group(release_name, caps, 1))
        episode == ParseInt(Group(release_name, caps, 2))
    IN  IF /\ caps.ok /\ season >= 0 /\ episode >= 0
           /\ season \in 1..20 /\ episode \in 1..200
        THEN SeasonEpisode(season, episode, <<episode>>)
        ELSE None

\* the cascade with the range tier tried before the two episode-only tiers
extract_season_episode_RangeFirst(release_name) ==
    OrSome(TierRange(release_name),
    OrSome(TierEpisodePair(release_name),
    OrSome(TierEpisodeOnly(release_name),
    OrSome(TierSingle(release_name),
    OrSome(AnimePattern(ReAnimeS, release_name),
           AnimePattern(ReAnimeBare, release_name))))))

\* the cascade: the first tier that returns
extract_season_episode(release_name) ==
    LET t1 == TierEpisodePair(release_name)
        t2 == TierEpisodeOnly(release_name)
        t3 == TierRange(release_name)
        t4 == TierSingle(release_name)
        t5 == AnimePattern(ReAnimeS, release_name)
        t6 == AnimePattern(ReAnimeBare, release_name)
    IN  IF IsSome(t1) THEN t1
        ELSE IF IsSome(t2) THEN t2
        ELSE IF IsSome(t3) THEN t3
        ELSE IF IsSome(t4) THEN t4
        ELSE IF IsSome(t5) THEN t5
        ELSE t6

(***************************************************************************)
(* extract_year (parser.rs 497-531)                                        *)
(***************************************************************************)
\* \((\d{4})\)                                                  line 499
ReYearParen == << Lit(<<"(">>) \o <<Open(1), Rep(Digit, 4, 4), Close(1)>> \o Lit(<<")">>) >>

\* \[(\d{4})\]                                                  line 510
ReYearBracket == << Lit(<<"[">>) \o <<Open(1), Rep(Digit, 4, 4), Close(1)>> \o Lit(<<"]">>) >>

\* \b(19|20|21)\d{2}\b                                          line 521
ReYearBare ==
    << <<WordB>> \o Lit(<<"1","9">>) \o <<Rep(Digit, 2, 2), WordB>>,
       <<WordB>> \o Lit(<<"2","0">>) \o <<Rep(Digit, 2, 2), WordB>>,
       <<WordB>> \o Lit(<<"2","1">>) \o <<Rep(Digit, 2, 2), WordB>> >>

\* the bounds of (1900..=2100).contains(&year), lines 502, 513, 524 and 1661
YearMin == 1900

YearMax == 2100

\* the range test of lines 502, 513, 524 with its upper limit forgotten
YearInRange_NoUpper(year) == year >= YearMin

YearInRange(year) == year >= YearMin /\ year <= YearMax

\* lines 499-518: the first match of a bracketed form, if it parses and is in range
YearOfFirst(re, release_name) ==
    LET cap  == Captures(re, release_name)
        year == ParseInt(Group(release_name, cap, 1))
    IN  IF cap.ok /\ year >= 0 /\ YearInRange(year) THEN Some(year) ELSE None

\* lines 521-529: the first bare 19xx/20xx/21xx token that is in range
YearOfBare(release_name) ==
    LET caps == CapturesIter(ReYearBare, release_name)
        year(i) == ParseInt(SubSeq(release_name, caps[i].start, caps[i].end - 1))
    IN  FirstSome([i \in 1..Len(caps) |->
                      IF year(i) >= 0 /\ YearInRange(year(i)) THEN Some(year(i)) ELSE None])

extract_year(release_name) ==
    LET paren   == YearOfFirst(ReYearParen, release_name)
        bracket == YearOfFirst(ReYearBracket, release_name)
    IN  IF IsSome(paren) THEN paren
        ELSE IF IsSome(bracket) THEN bracket
        ELSE YearOfBare(release_name)

(***************************************************************************)
(* extract_episode_number (parser.rs 1641-1670)                            *)
(***************************************************************************)
\* -\s*(\d{3}(?:-\d{3})?)\s*-                                   line 1644
\* (the optional group is greedy: the alternative with it comes first)
ReEpisodeNumber ==
    << Lit(<<"-">>) \o <<Rep(Space, 0, Unbounded), Open(1), Rep(Digit, 3, 3)>>
       \o Lit(<<"-">>) \o <<Rep(Digit, 3, 3), Close(1), Rep(Space, 0, Unbounded)>>
       \o Lit(<<"-">>),
       Lit(<<"-">>) \o <<Rep(Space, 0, Unbounded), Open(1), Rep(Digit, 3, 3), Close(1),
                         Rep(Space, 0, Unbounded)>>
       \o Lit(<<"-">>) >>

\* \[(\d{1,4})\]                                                line 1651
ReEpisodeBracket ==
    << Lit(<<"[">>) \o <<Open(1), Rep(Digit, 1, 4), Close(1)>> \o Lit(<<"]">>) >>

\* str::len: the length in UTF-8 bytes (the digit outside ASCII takes two)
RECURSIVE ByteLen(_)
ByteLen(s) ==
    IF Len(s) = 0 THEN 0
    ELSE (IF s[1] = ArabicThree THEN 2 ELSE 1) + ByteLen(Tail(s))

\* lines 1652-1667 without the test for a year of lines 1659-1664
BracketEpisode_NoYear(ep_num) ==
    IF ByteLen(ep_num) <= 4 THEN Some(ep_num) ELSE None

\* lines 1652-1667, one bracketed number: returned unless it reads as a year
BracketEpisode(ep_num) ==
    IF ByteLen(ep_num) <= 3 THEN Some(ep_num)
    ELSE IF ByteLen(ep_num) = 4
         THEN IF ParseInt(ep_num) >= 0 /\ YearInRange(ParseInt(ep_num))
              THEN None
              ELSE Some(ep_num)
    ELSE None

\* Option<String>: "001", "001-003" or the digits of a bracketed number
extract_episode_number(release_name) ==
    LET dash     == Captures(ReEpisodeNumber, release_name)
        brackets == CapturesIter(ReEpisodeBracket, release_name)
    IN  IF dash.ok THEN Some(Group(release_name, dash, 1))
        ELSE FirstSome([i \in 1..Len(brackets) |->
                           BracketEpisode(Group(release_name, brackets[i], 1))])

(***************************************************************************)
(* extract_source (parser.rs 533-618)                                      *)
(***************************************************************************)
\* \[[^\]]*Remux[^\]]*\]                                        lines 537, 600
ReRemuxBracket ==
    << Lit(<<"[">>) \o <<RepNot({"]"}, 0, Unbounded)>> \o Lit(<<"R","e","m","u","x">>)
       \o <<RepNot({"]"}, 0, Unbounded)>> \o Lit(<<"]">>) >>

\* \[([^\]]+?)(?:-\d+p)                                         line 548
ReBracketResolution ==
    << Lit(<<"[">>) \o <<Open(1), RepNotLazy({"]"}, 1, Unbounded), Close(1)>>
       \o Lit(<<"-">>) \o <<Rep(Digit, 1, Unbounded)>> \o Lit(<<"p">>) >>

\* the list `sources` of lines 582-598, in declaration order
Sources ==
    <<
      <<"D","V","D","R","i","p">>, <<"D","V","D","-","R","i","p">>,
      <<"D","V","D","R">>, <<"D","V","D","5">>, <<"D","V","D","9">>,
      <<"D","V","D","-","R">>, <<"D","v","D","r","i","p">>,
      <<"W","E","B","-","D","L">>, <<"W","E","B","R","i","p">>,
      <<"W","e","b"," ","R","i","p">>,
      <<"W","e","b"," ","D","o","w","n","l","o","a","d">>, <<"W","E","B">>,
      <<"W","E","B","D","L">>, <<"A","M","Z","N"," ","W","E","B","D","L">>,
      <<"M","A"," ","W","E","B","D","L">>, <<"H","D","T","V">>, <<"P","D","T","V">>,
      <<"D","S","R">>, <<"S","A","T","R","i","p">>, <<"T","V","R","i","p">>,
      <<"i","N","T","E","R","N","A","L"," ","H","D","T","V">>,
      <<"i","N","T","E","R","N","A","L">>, <<"B","l","u","R","a","y">>,
      <<"B","D","R","i","p">>, <<"B","R","R","i","p">>, <<"B","D">>,
      <<"V","H","S","R","i","p">>, <<"R","5">>, <<"T","C">>, <<"T","S">>,
      <<"C","A","M">>, <<"S","C","R">>, <<"H","D","C","A","M">>,
      <<"T","E","L","E","S","Y","N","C">>, <<"T","E","L","E","C","I","N","E">>,
      <<"R","e","m","u","x">>, <<"W","o","r","k","p","r","i","n","t">>, <<"W","P">>,
      <<"P","P","V"," ","R","i","p">>, <<"P","P","V","R","i","p">>, <<"D","D","C">>,
      <<"V","O","D"," ","R","i","p">>, <<"V","O","D","R","i","p">>,
      <<"H","C"," ","H","D"," ","R","i","p">>, <<"H","C","H","D","R","i","p">>,
      <<"W","e","b"," ","C","a","p","t","u","r","e">>, <<"H","D","R","i","p">>,
      <<"D","C","P">>, <<"T","h","e","a","t","r","e">>, <<"T","h","e","a","t","e","r">>
    >>

\* lines 553-571, one bracket_content: the source it names, None to go on
BracketSource(bracket_content) ==
    IF \/ Contains(bracket_content, <<"M","A"," ","W","E","B","D","L">>)
       \/ Contains(bracket_content, <<"M","A",".","W","E","B","D","L">>)
    THEN Some(<<"M","A"," ","W","E","B","D","L">>)
    ELSE IF Contains(bracket_content, <<"i","N","T","E","R","N","A","L">>)
    THEN Some(<<"i","N","T","E","R","N","A","L">>)
    ELSE IF Contains(bracket_content, <<"A","M","Z","N"," ","W","E","B","D","L">>)
    THEN Some(<<"W","E","B","D","L">>)
    ELSE IF \/ Contains(bracket_content, <<"W","E","B","D","L">>)
            \/ Contains(bracket_content, <<"W","E","B","-","D","L">>)
    THEN Some(<<"W","E","B","-","D","L">>)
    ELSE IF /\ \/ Contains(bracket_content, <<"B","l","u","r","a","y">>)
               \/ Contains(bracket_content, <<"B","l","u","R","a","y">>)
            /\ ~Contains(bracket_content, <<"R","e","m","u","x">>)
    THEN Some(<<"B","l","u","R","a","y">>)
    ELSE None

\* lines 601-616, one entry of `sources`: Some(source) if it is returned
ListedSource(source, release_name) ==
    IF /\ source = <<"B","l","u","R","a","y">>
       /\ Contains(release_name, <<"[">>)
       /\ IsMatch(ReRemuxBracket, release_name)
    THEN None
    ELSE IF IsMatch(<<LitI(source)>>, release_name) THEN Some(source) ELSE None

\* extract_source without the bracket test of lines 537-541
RemuxInBracket_Never(release_name) == FALSE

\* lines 537-541: a bracket group that contains "Remux" decides first
RemuxInBracket(release_name) == IsMatch(ReRemuxBracket, release_name)

extract_source(release_name) ==
    LET brackets == CapturesIter(ReBracketResolution, release_name)
        bracketed == FirstSome([i \in 1..Len(brackets) |->
                                   BracketSource(Group(release_name, brackets[i], 1))])
        listed == FirstSome([i \in 1..Len(Sources) |->
                                ListedSource(Sources[i], release_name)])
    IN  IF RemuxInBracket(release_name) THEN <<"R","e","m","u","x">>
        ELSE IF \/ Contains(release_name, <<"R","e","m","u","x","-">>)
                \/ Contains(release_name, <<".","R","e","m","u","x","-">>)
        THEN <<"R","e","m","u","x">>
        ELSE IF IsSome(bracketed) THEN bracketed[1]
        ELSE IF \/ Contains(release_name, <<"M","A",".","W","E","B","D","L">>)
                \/ Contains(release_name, <<"M","A"," ","W","E","B","D","L">>)
        THEN <<"M","A"," ","W","E","B","D","L">>
        ELSE IF IsSome(listed) THEN listed[1]
        ELSE <<>>

(***************************************************************************)
(* extract_flags (parser.rs 873-932)                                       *)
(***************************************************************************)
\* the table `flag_patterns` of lines 877-921: (flag_name, pattern), in
\* declaration order.  A flag name is kept as one value; a pattern is a regex.
FlagPatterns ==
    <<
      \* (?i)READ\.?NFO
      [name |-> "READNFO",
       re |-> << LitI(<<"R","E","A","D">>) \o <<Rep({"."}, 0, 1)>> \o LitI(<<"N","F","O">>) >>],
      \* (?i)READNFO
      [name |-> "READNFO",
       re |-> << LitI(<<"R","E","A","D","N","F","O">>) >>],
      \* (?i)PROPER
      [name |-> "PROPER",
       re |-> << LitI(<<"P","R","O","P","E","R">>) >>],
      \* (?i)REPACK
      [name |-> "REPACK",
       re |-> << LitI(<<"R","E","P","A","C","K">>) >>],
      \* (?i)RERIP
      [name |-> "RERIP",
       re |-> << LitI(<<"R","E","R","I","P">>) >>],
      \* (?i)\bINTERNAL\b
      [name |-> "INTERNAL",
       re |-> << <<WordB>> \o LitI(<<"I","N","T","E","R","N","A","L">>) \o <<WordB>> >>],
      \* (?i)\biNTERNAL\b
      [name |-> "iNTERNAL",
       re |-> << <<WordB>> \o LitI(<<"i","N","T","E","R","N","A","L">>) \o <<WordB>> >>],
      \* (?i)TV\.?Dubbed
      [name |-> "TV Dubbed",
       re |-> << LitI(<<"T","V">>) \o <<Rep({"."}, 0, 1)>> \o LitI(<<"D","u","b","b","e","d">>) >>],
      \* (?i)\bDubbed\b
      [name |-> "Dubbed",
       re |-> << <<WordB>> \o LitI(<<"D","u","b","b","e","d">>) \o <<WordB>> >>],
      \* (?i)\bSubbed\b
      [name |-> "Subbed",
       re |-> << <<WordB>> \o LitI(<<"S","u","b","b","e","d">>) \o <<WordB>> >>],
      \* (?i)(?:Hard\.?Sub|HardSub)
      [name |-> "Hard Sub",
       re |-> << LitI(<<"H","a","r","d">>) \o <<Rep({"."}, 0, 1)>> \o LitI(<<"S","u","b">>),
                LitI(<<"H","a","r","d","S","u","b">>) >>],
      \* (?i)MultiSub
      [name |-> "MultiSub",
       re |-> << LitI(<<"M","u","l","t","i","S","u","b">>) >>],
      \* (?i)Multi-Subs
      [name |-> "Multi-Subs",
       re |-> << LitI(<<"M","u","l","t","i","-","S","u","b","s">>) >>],
      \* (?i)\bUncut\b
      [name |-> "Uncut",
       re |-> << <<WordB>> \o LitI(<<"U","n","c","u","t">>) \o <<WordB>> >>],
      \* (?i)Director'?s\.?Cut
      [name |-> "Director's Cut",
       re |-> << LitI(<<"D","i","r","e","c","t","o","r">>) \o <<Rep({"'"}, 0, 1)>> \o LitI(<<"s">>) \o <<Rep({"."}, 0, 1)>> \o LitI(<<"C","u","t">>) >>],
      \* (?i)\bExtended\b
      [name |-> "Extended",
       re |-> << <<WordB>> \o LitI(<<"E","x","t","e","n","d","e","d">>) \o <<WordB>> >>],
      \* (?i)\bLimited\b
      [name |-> "Limited",
       re |-> << <<WordB>> \o LitI(<<"L","i","m","i","t","e","d">>) \o <<WordB>> >>],
      \* (?i)Limited\.?Edition
      [name |-> "Limited Edition",
       re |-> << LitI(<<"L","i","m","i","t","e","d">>) \o <<Rep({"."}, 0, 1)>> \o LitI(<<"E","d","i","t","i","o","n">>) >>],
      \* (?i)Special\.?Edition
      [name |-> "Special Edition",
       re |-> << LitI(<<"S","p","e","c","i","a","l">>) \o <<Rep({"."}, 0, 1)>> \o LitI(<<"E","d","i","t","i","o","n">>) >>],
      \* (?i)Collector'?s\.?Edition
      [name |-> "Collector's Edition",
       re |-> << LitI(<<"C","o","l","l","e","c","t","o","r">>) \o <<Rep({"'"}, 0, 1)>> \o LitI(<<"s">>) \o <<Rep({"."}, 0, 1)>> \o LitI(<<"E","d","i","t","i","o","n">>) >>],
      \* (?i)Ultimate\.?Edition
      [name |-> "Ultimate Edition",
       re |-> << LitI(<<"U","l","t","i","m","a","t","e">>) \o <<Rep({"."}, 0, 1)>> \o LitI(<<"E","d","i","t","i","o","n">>) >>],
      \* (?i)\bIMAX\b
      [name |-> "IMAX",
       re |-> << <<WordB>> \o LitI(<<"I","M","A","X">>) \o <<WordB>> >>],
      \* (?i)IMAX\s+HYBRID
      [name |-> "IMAX HYBRID",
       re |-> << LitI(<<"I","M","A","X">>) \o <<Rep(Space, 1, Unbounded)>> \o LitI(<<"H","Y","B","R","I","D">>) >>],
      \* (?i)\[3D\]|(?i)\b3D\b
      [name |-> "3D",
       re |-> << LitI(<<"[","3","D","]">>),
                <<WordB>> \o LitI(<<"3","D">>) \o <<WordB>> >>],
      \* (?i)\[10bit\]|(?i)\b10bit\b
      [name |-> "10bit",
       re |-> << LitI(<<"[","1","0","b","i","t","]">>),
                <<WordB>> \o LitI(<<"1","0","b","i","t">>) \o <<WordB>> >>],
      \* (?i)REMASTERED
      [name |-> "REMASTERED",
       re |-> << LitI(<<"R","E","M","A","S","T","E","R","E","D">>) >>],
      \* (?i)ANiME
      [name |-> "ANiME",
       re |-> << LitI(<<"A","N","i","M","E">>) >>],
      \* (?i)NUKED
      [name |-> "NUKED",
       re |-> << LitI(<<"N","U","K","E","D">>) >>],
      \* (?i)DUPE
      [name |-> "DUPE",
       re |-> << LitI(<<"D","U","P","E">>) >>],
      \* (?i)RETAIL
      [name |-> "RETAIL",
       re |-> << LitI(<<"R","E","T","A","I","L">>) >>],
      \* (?i)RERIP
      [name |-> "RERIP",
       re |-> << LitI(<<"R","E","R","I","P">>) >>],
      \* (?i)NFOFIX
      [name |-> "NFOFIX",
       re |-> << LitI(<<"N","F","O","F","I","X">>) >>],
      \* (?i)COMPLETE
      [name |-> "COMPLETE",
       re |-> << LitI(<<"C","O","M","P","L","E","T","E">>) >>],
      \* (?i)FESTIVAL
      [name |-> "FESTIVAL",
       re |-> << LitI(<<"F","E","S","T","I","V","A","L">>) >>],
      \* (?i)\bSTV\b
      [name |-> "STV",
       re |-> << <<WordB>> \o LitI(<<"S","T","V">>) \o <<WordB>> >>],
      \* (?i)\bSUBBED\b
      [name |-> "SUBBED",
       re |-> << <<WordB>> \o LitI(<<"S","U","B","B","E","D">>) \o <<WordB>> >>],
      \* (?i)\bDUBBED\b
      [name |-> "DUBBED",
       re |-> << <<WordB>> \o LitI(<<"D","U","B","B","E","D">>) \o <<WordB>> >>]
    >>

\* lines 923-929: every pattern that matches pushes its flag name, in table order
extract_flags(release_name) ==
    LET hits == SelectSeq(FlagPatterns, LAMBDA p : IsMatch(p.re, release_name))
    IN  [i \in 1..Len(hits) |-> hits[i].name]

(***************************************************************************)
(* extract_format (parser.rs 620-655) and extract_resolution (657-679)     *)
(***************************************************************************)
\* \[([A-Za-z0-9]+)\]                                          line 622
ReFormatBracket ==
    << Lit(<<"[">>)
       \o <<Open(1), Rep(Upper \cup Lower \cup AsciiDigit, 1, Unbounded), Close(1)>>
       \o Lit(<<"]">>) >>

\* line 626
known_formats == << <<"A","V","C">>, <<"h","2","6","5">>, <<"h","2","6","4">>, <<"H","E","V","C">>, <<"H","2","6","4">>, <<"x","2","6","5">>, <<"x","2","6","4">> >>

\* lines 644-647
formats ==
    << <<"S","V","C","D">>, <<"V","C","D">>, <<"X","v","i","D">>, <<"D","i","v","X">>, <<"x","2","6","4">>, <<"x","2","6","5">>, <<"H","E","V","C">>,
       <<"H","2","6","4">>, <<"A","V","C">>, <<"M","P","E","G","2">>, <<"M","P","E","G","4">>, <<"h","2","6","5">>, <<"h","2","6","4">> >>

\* lines 627-631: the first known format that the bracket's content is, in any case
KnownFormat(format_str) ==
    FirstSome([n \in DOMAIN known_formats |->
                  IF EqIgnoreAsciiCase(format_str, known_formats[n])
                  THEN Some(known_formats[n]) ELSE None])

\* lines 623-632: the brackets in their order
BracketFormat(release_name, caps) ==
    FirstSome([i \in 1..Len(caps) |-> KnownFormat(Group(release_name, caps[i], 1))])

\* lines 636-641: (?i)H\.(264|265), rendered as "H." and the digits
DottedFormat(release_name, cap) ==
    IF cap.ok THEN Some(<<"H",".">> \o Group(release_name, cap, 1)) ELSE None

\* lines 649-653: the first entry of `formats` that the name contains
ListedFormat(release_name) ==
    FirstSome([n \in DOMAIN formats |->
                  IF Contains(release_name, formats[n]) THEN Some(formats[n]) ELSE None])

\* the bare scans of lines 635-654: H.264/H.265, then the list
BareFormat(release_name) ==
    OrSome(DottedFormat(release_name,
                        Captures(<< LitI(<<"H">>) \o Lit(<<".">>)
                                    \o <<Open(1), AnyOf(<<Lit(<<"2","6","4">>), Lit(<<"2","6","5">>)>>), Close(1)>> >>,
                                 release_name)),
           ListedFormat(release_name))

extract_format(release_name) ==
    UnwrapOr(OrSome(BracketFormat(release_name, CapturesIter(ReFormatBracket, release_name)),
                    BareFormat(release_name)),
             <<>>)

\* format!("{}p", cap.get(1).unwrap().as_str())
Resolution(release_name, cap) ==
    IF cap.ok THEN Some(Group(release_name, cap, 1) \o <<"p">>) ELSE None

\* \[[^\]]*-(\d{3,4})p                                         line 659
ReResolutionBracket ==
    << Lit(<<"[">>) \o <<RepNot({"]"}, 0, Unbounded)>> \o Lit(<<"-">>)
       \o <<Open(1), Rep(Digit, 3, 4), Close(1)>> \o Lit(<<"p">>) >>

\* \((\d{3,4})p\)                                              line 666
ReResolutionParen ==
    << Lit(<<"(">>) \o <<Open(1), Rep(Digit, 3, 4), Close(1)>> \o Lit(<<"p",")">>) >>

\* (?i)(\d{3,4})[pi]                                           line 673
ReResolutionBare ==
    << <<Open(1), Rep(Digit, 3, 4), Close(1), One({"p", "i", "P", "I"})>> >>

extract_resolution(release_name) ==
    UnwrapOr(OrSome(Resolution(release_name, Captures(ReResolutionBracket, release_name)),
             OrSome(Resolution(release_name, Captures(ReResolutionParen, release_name)),
                    Resolution(release_name, Captures(ReResolutionBare, release_name)))),
             <<>>)

(***************************************************************************)
(* extract_group (parser.rs 315-377)                                       *)
(***************************************************************************)
\* char::is_alphanumeric (restricted to the characters of the model)
Alphanumeric == Upper \cup Lower \cup Digit

\* line 327: the tags a bracket at the start must not be
MetadataTags ==
    << <<"A","V","C">>, <<"G","B">>, <<"1","0","8","0","P">>, <<"7","2","0","p">>, <<"W","E","B","-","D","L">>, <<"W","E","B","D","L">>, <<"W","E","B","R","i","P">>,
       <<"B","l","u","R","a","y">>, <<"x","2","6","4">>, <<"x","2","6","5">>, <<"h","2","6","4">>, <<"h","2","6","5">>, <<"H","E","V","C">>, <<"A","A","C">>,
       <<"A","C","3">>, <<"D","T","S">>, <<"M","u","l","t","i","S","u","b">>, <<"M","u","l","t","i","-","S","u","b","s">> >>

\* line 370: the words a trailing capitalized word must not be
NotGroup ==
    << <<"D","V","D","R","i","p">>, <<"x","2","6","4">>, <<"x","2","6","5">>, <<"A","C","3">>, <<"D","T","S">>, <<"A","A","C">>, <<"M","P","3">>,
       <<"F","L","A","C">>, <<"H","E","V","C">>, <<"A","V","C">> >>

\* .iter().any(|&tag| s.eq_ignore_ascii_case(tag))
AnyIgnoreCase(tags, s) == \E n \in 1..Len(tags) : EqIgnoreAsciiCase(s, tags[n])

\* lines 319-332 and 340-351: the trimmed content of a bracket is a group when it
\* has min_len..30 bytes, more than 70% of them allowed characters, and is no tag
BracketGroup(potential_group, min_len, allowed, tags) ==
    IF /\ ByteLen(potential_group) >= min_len
       /\ ByteLen(potential_group) <= 30
       /\ 10 * Cardinality({n \in 1..Len(potential_group) : potential_group[n] \in allowed})
             > 7 * ByteLen(potential_group)
       /\ ~AnyIgnoreCase(tags, potential_group)
    THEN Some(potential_group)
    ELSE None

\* the group of a bracket match, if the pattern matched
BracketTier(release_name, cap, min_len, allowed, tags) ==
    IF cap.ok
    THEN BracketGroup(Trim(Group(release_name, cap, 1)), min_len, allowed, tags)
    ELSE None

\* lines 356-363: what follows the last dash, up to its first dot
AfterLastDash(release_name) ==
    IF \E n \in 1..Len(release_name) : release_name[n] = "-"
    THEN LET last_dash == CHOOSE n \in 1..Len(release_name) :
                              /\ release_name[n] = "-"
                              /\ \A j \in (n + 1)..Len(release_name) : release_name[j] /= "-"
             group_clean == Split(SubSeq(release_name, last_dash + 1, Len(release_name)), ".")[1]
         IN  IF group_clean /= <<>> /\ ByteLen(group_clean) < 50
             THEN Some(group_clean) ELSE None
    ELSE None

\* lines 366-375: a capitalized last word after a dot
TrailingWord(release_name, cap) ==
    IF cap.ok /\ ~AnyIgnoreCase(NotGroup, Group(release_name, cap, 1))
    THEN Some(Group(release_name, cap, 1))
    ELSE None

\* the tiers with the last dash (lines 356-363) asked first
extract_group_DashFirst(release_name) ==
    OrSome(AfterLastDash(release_name),
    OrSome(BracketTier(release_name,
                       Captures(<< <<Bos>> \o Lit(<<"[">>)
                                   \o <<Open(1), RepNot({"]"}, 1, Unbounded), Close(1)>>
                                   \o Lit(<<"]">>) >>, release_name),
                       3, Alphanumeric \cup {"-", "_", " "}, MetadataTags),
    OrSome(BracketTier(release_name,
                       Captures(<< Lit(<<"[">>)
                                   \o <<Open(1), RepNot({"]"}, 1, Unbounded), Close(1)>>
                                   \o Lit(<<"]">>) \o <<Eos>> >>, release_name),
                       2, Alphanumeric \cup {"-", "_"},
                       MetadataTags \o << <<"H","2","6","4">>, <<"A","A","C"," ","2",".","0">> >>),
           TrailingWord(release_name,
                        Captures(<< Lit(<<".">>)
                                    \o <<Open(1), One(Upper),
                                         Rep(Upper \cup Lower \cup AsciiDigit, 2, 15),
                                         Close(1), Eos>> >>, release_name)))))

\* the four tiers in order: ^\[([^\]]+)\] (line 317), \[([^\]]+)\]$ (line 338),
\* the last dash, \.([A-Z][a-zA-Z0-9]{2,15})$ (line 366)
extract_group(release_name) ==
    OrSome(BracketTier(release_name,
                       Captures(<< <<Bos>> \o Lit(<<"[">>)
                                   \o <<Open(1), RepNot({"]"}, 1, Unbounded), Close(1)>>
                                   \o Lit(<<"]">>) >>, release_name),
                       3, Alphanumeric \cup {"-", "_", " "}, MetadataTags),
    OrSome(BracketTier(release_name,
                       Captures(<< Lit(<<"[">>)
                                   \o <<Open(1), RepNot({"]"}, 1, Unbounded), Close(1)>>
                                   \o Lit(<<"]">>) \o <<Eos>> >>, release_name),
                       2, Alphanumeric \cup {"-", "_"},
                       MetadataTags \o << <<"H","2","6","4">>, <<"A","A","C"," ","2",".","0">> >>),
    OrSome(AfterLastDash(release_name),
           TrailingWord(release_name,
                        Captures(<< Lit(<<".">>)
                                    \o <<Open(1), One(Upper),
                                         Rep(Upper \cup Lower \cup AsciiDigit, 2, 15),
                                         Close(1), Eos>> >>, release_name)))))

(***************************************************************************)
(* The identifiers, the edition, the disc and the date (parser.rs          *)
(* 1565-1639 and 1672-1681)                                                *)
(***************************************************************************)
\* if let Some(cap) = re.captures(..) { return Some(cap.get(1).unwrap().as_str()..) }
FirstGroup(release_name, cap) ==
    IF cap.ok THEN Some(Group(release_name, cap, 1)) ELSE None

\* \{site-(lead\d+)\}, then \[site(?:id)?-(lead\d+)\]
MarkerId(release_name, site, lead) ==
    OrSome(FirstGroup(release_name,
                      Captures(<< Lit(<<"{">> \o site \o <<"-">>) \o <<Open(1)>> \o Lit(lead)
                                  \o <<Rep(Digit, 1, Unbounded), Close(1)>> \o Lit(<<"}">>) >>,
                               release_name)),
           FirstGroup(release_name,
                      Captures(<< Lit(<<"[">> \o site) \o <<Opt(Lit(<<"i","d">>))>> \o Lit(<<"-">>)
                                  \o <<Open(1)>> \o Lit(lead)
                                  \o <<Rep(Digit, 1, Unbounded), Close(1)>> \o Lit(<<"]">>) >>,
                               release_name)))

\* lines 1577-1591
extract_tmdb_id(release_name) == MarkerId(release_name, <<"t","m","d","b">>, <<>>)

\* lines 1593-1607
extract_tvdb_id(release_name) == MarkerId(release_name, <<"t","v","d","b">>, <<>>)

\* lines 1609-1623
extract_imdb_id(release_name) == MarkerId(release_name, <<"i","m","d","b">>, <<"t","t">>)

\* as_str().trim() of an Option
TrimSome(found) == IF IsSome(found) THEN Some(Trim(found[1])) ELSE None

\* lines 1625-1639: \{edition-([^}]+)\}, then \[([A-Z]-Edition)\]
extract_edition(release_name) ==
    TrimSome(
        OrSome(FirstGroup(release_name,
                          Captures(<< Lit(<<"{","e","d","i","t","i","o","n","-">>)
                                      \o <<Open(1), RepNot({"}"}, 1, Unbounded), Close(1)>>
                                      \o Lit(<<"}">>) >>, release_name)),
               FirstGroup(release_name,
                          Captures(<< Lit(<<"[">>) \o <<Open(1), One(Upper)>>
                                      \o Lit(<<"-","E","d","i","t","i","o","n">>) \o <<Close(1)>> \o Lit(<<"]">>) >>,
                                   release_name))))

\* u8::MAX
U8Max == 255

\* str::parse::<u8> of the digits found, if any
ParseU8(found) ==
    IF IsSome(found) /\ ParseInt(found[1]) >= 0 /\ ParseInt(found[1]) <= U8Max
    THEN Some(ParseInt(found[1]))
    ELSE None

\* lines 1565-1575: (?i)(?:Disc|CD|DVD)\s*(\d+)
extract_disc(release_name) ==
    ParseU8(FirstGroup(release_name,
                       Captures(<< <<AnyOf(<<LitI(<<"D","i","s","c">>), LitI(<<"C","D">>), LitI(<<"D","V","D">>)>>),
                                     Rep(Space, 0, Unbounded),
                                     Open(1), Rep(Digit, 1, Unbounded), Close(1)>> >>,
                                release_name)))

\* lines 1672-1681: -\s*(\d{4}-\d{2}-\d{2})\s*-
extract_date(release_name) ==
    FirstGroup(release_name,
               Captures(<< Lit(<<"-">>)
                           \o <<Rep(Space, 0, Unbounded), Open(1), Rep(Digit, 4, 4)>>
                           \o Lit(<<"-">>) \o <<Rep(Digit, 2, 2)>>
                           \o Lit(<<"-">>) \o <<Rep(Digit, 2, 2), Close(1),
                                             Rep(Space, 0, Unbounded)>>
                           \o Lit(<<"-">>) >>, release_name))

(***************************************************************************)
(* extract_streaming_provider (parser.rs 1701-1794)                        *)
(***************************************************************************)
\* lines 1704-1738: the entries of providers that occur, in any letter case,
\* in a name of the model, in the order of the table (the other entries match
\* none of the names)
Providers == << <<"A","M","Z","N">>, <<"C","R">>, <<"D","I","S","C">>, <<"N","F">> >>

\* (?:WEB-DL|WEBRip|WEBDL) under (?i)
WebAlts == AnyOf(<<LitI(<<"W","E","B","-","D","L">>), LitI(<<"W","E","B","R","i","p">>), LitI(<<"W","E","B","D","L">>)>>)

\* Some(value) if the pattern matches
IfMatch(re, release_name, value) ==
    IF IsMatch(re, release_name) THEN Some(value) ELSE None

\* lines 1753-1757: the entry of the table that the word is, in any letter case
KnownProvider(provider) ==
    FirstSome([n \in 1..Len(Providers) |->
                  IF EqIgnoreAsciiCase(provider, Providers[n]) THEN Some(Providers[n]) ELSE None])

\* lines 1759-1761: a word of 2 to 6 upper-case letters and digits
ShortProvider(provider) ==
    IF /\ ByteLen(provider) >= 2
       /\ ByteLen(provider) <= 6
       /\ \A n \in 1..Len(provider) : provider[n] \in Upper \cup AsciiDigit
    THEN Some(provider)
    ELSE None

\* lines 1749-1763: resolution, provider, web source
BetweenResolutionAndWeb(release_name, caps) ==
    IF caps.ok
    THEN OrSome(KnownProvider(Group(release_name, caps, 2)),
                ShortProvider(Group(release_name, caps, 2)))
    ELSE None

\* lines 1780-1786: the first entry of the table found as a word
ListedProvider(release_name) ==
    FirstSome([n \in 1..Len(Providers) |->
                  IfMatch(<< <<WordB>> \o LitI(Providers[n]) \o <<WordB>> >>,
                          release_name, Providers[n])])

\* the tests in their order; String::new() when none applies
extract_streaming_provider(release_name) ==
    UnwrapOr(
        OrSome(IfMatch(<< LitI(<<"[","A","M","Z","N">>) \o <<Rep(Space, 1, Unbounded)>> \o LitI(<<"W","E","B","D","L">>) >>,
                       release_name, <<"A","M","Z","N">>),
        OrSome(BetweenResolutionAndWeb(
                   release_name,
                   Captures(<< <<Open(1), Rep(Digit, 1, Unbounded)>> \o LitI(<<"p">>)
                               \o <<Close(1)>> \o Lit(<<".">>)
                               \o <<Open(2), Rep(Upper \cup Lower \cup AsciiDigit, 1, Unbounded),
                                    Close(2)>>
                               \o Lit(<<".">>) \o <<WebAlts>> >>, release_name)),
        OrSome(IfMatch(<< <<WordB>> \o LitI(<<"C","R">>) \o <<Rep(Space, 1, Unbounded), WebAlts>> >>,
                       release_name, <<"C","R">>),
        OrSome(IfMatch(<< <<WordB>> \o LitI(<<"N","F">>) \o <<Rep(Space, 1, Unbounded), WebAlts>> >>,
                       release_name, <<"N","F">>),
        OrSome(ListedProvider(release_name),
               IF \/ Contains(release_name, <<"A","M","Z","N"," ","W","E","B","D","L">>)
                  \/ Contains(release_name, <<"A","M","Z","N",".","W","E","B","D","L">>)
               THEN Some(<<"A","M","Z","N">>) ELSE None))))),
        <<>>)

(***************************************************************************)
(* ParsedRelease (types.rs 4-34) and the stages of parse (parser.rs        *)
(* 161-313).  The record holds the fields the extractors above fill.       *)
(***************************************************************************)
\* ParsedRelease { release, release_type, ..Default::default() }
DefaultRelease(release, release_type) ==
    [release      |-> release,
     release_type |-> release_type,
     title        |-> <<>>,
     episode_title |-> <<>>,
     group        |-> <<>>,
     year         |-> None,
     date         |-> None,
     season       |-> None,
     episode      |-> None,
     episodes     |-> <<>>,
     disc         |-> None,
     flags        |-> <<>>,
     source       |-> <<>>,
     format       |-> <<>>,
     resolution   |-> <<>>,
     streaming_provider |-> <<>>,
     tmdb_id      |-> None,
     tvdb_id      |-> None,
     imdb_id      |-> None,
     edition      |-> None]

\* lines 168-171
WithGroup(parsed, release_name) ==
    [parsed EXCEPT !.group = UnwrapOr(extract_group(release_name), @)]

\* (?i)Episode\s+(\d{1,3})                                      line 190
ReEpisodeWord ==
    << LitI(<<"E","p","i","s","o","d","e">>)
       \o <<Rep(Space, 1, Unbounded), Open(1), Rep(Digit, 1, 3), Close(1)>> >>

\* lines 177-180 without the test `season > 0`
SeasonOf_NoGuard(season) == Some(season)

\* lines 177-180: season 0 of the cascade means "no season"
SeasonOf(season) == IF season > 0 THEN Some(season) ELSE None

\* lines 182-187 without the test `episodes.len() == 1`
EpisodeOf_Always(episode, episodes) == Some(episode)

\* lines 182-187 and 271-276: episode is set only for a single episode
EpisodeOf(episode, episodes) == IF Len(episodes) = 1 THEN Some(episode) ELSE None

\* lines 173-200: season and episode, for the hint "tv" only
WithSeasonEpisode(parsed, release_type, release_name) ==
    IF release_type /= "tv" THEN parsed
    ELSE LET found   == extract_season_episode(release_name)
             cap     == Captures(ReEpisodeWord, release_name)
             episode == ParseInt(Group(release_name, cap, 1))
         IN  IF IsSome(found)
             THEN [parsed EXCEPT
                      !.season   = SeasonOf(found[1].season),
                      !.episodes = found[1].episodes,
                      !.episode  = EpisodeOf(found[1].episode, found[1].episodes)]
             ELSE IF cap.ok /\ episode >= 0
             THEN [parsed EXCEPT !.episode = Some(episode), !.episodes = <<episode>>]
             ELSE parsed

\* lines 202-252: the extractors that do not depend on one another
WithFields(parsed, release_name) ==
    [parsed EXCEPT
        !.year   = extract_year(release_name),
        !.source = extract_source(release_name),
        !.format = extract_format(release_name),
        !.resolution = extract_resolution(release_name),
        !.flags  = extract_flags(release_name),
        !.tmdb_id = extract_tmdb_id(release_name),
        !.tvdb_id = extract_tvdb_id(release_name),
        !.imdb_id = extract_imdb_id(release_name),
        !.edition = extract_edition(release_name)]

\* lines 254-289: the episode number "001", "001-003" or "[119]"
WithEpisodeNumber(parsed, release_name) ==
    LET found    == extract_episode_number(release_name)
        ep_num   == found[1]
        parts    == Split(ep_num, "-")
        ep_start == ParseInt(parts[1])
        ep_end   == ParseInt(parts[2])
        episodes == RangeInclusive(ep_start, ep_end)
        ep       == ParseInt(ep_num)
    IN  IF ~IsSome(found) THEN parsed
        ELSE IF Contains(ep_num, <<"-">>)
        THEN IF Len(parts) = 2 /\ ep_start >= 0 /\ ep_end >= 0
             THEN [parsed EXCEPT !.episodes = episodes,
                                 !.episode  = EpisodeOf(ep_start, episodes)]
             ELSE parsed
        ELSE IF ep >= 0 /\ ~IsSome(parsed.episode)
        THEN [parsed EXCEPT !.episode = Some(ep), !.episodes = <<ep>>]
        ELSE parsed

(***************************************************************************)
(* The directory parsers (parser.rs 16-107)                                *)
(***************************************************************************)
\* \s*\(\d{4}\)\s*                                     lines 42, 82, 1028
RePaddedYear ==
    << <<Rep(Space, 0, Unbounded)>> \o Lit(<<"(">>) \o <<Rep(Digit, 4, 4)>> \o Lit(<<")">>)
       \o <<Rep(Space, 0, Unbounded)>> >>

\* \s*\{site-lead\d+\}\s*                               lines 45, 48, 51
PaddedBraced(site, lead) ==
    <<Rep(Space, 0, Unbounded)>> \o Lit(<<"{">> \o site \o <<"-">> \o lead)
    \o <<Rep(Digit, 1, Unbounded)>> \o Lit(<<"}">>) \o <<Rep(Space, 0, Unbounded)>>

\* \[site(?:id)?-lead\d+\]                              lines 48, 51, 85
Bracketed(site, lead) ==
    Lit(<<"[">> \o site) \o <<Opt(Lit(<<"i","d">>))>> \o Lit(<<"-">> \o lead)
    \o <<Rep(Digit, 1, Unbounded)>> \o Lit(<<"]">>)

\* title = re.replace_all(&title, " ") for each of the patterns n.. in turn; none
\* of the program's patterns matches in an empty string
RECURSIVE RemoveEach(_, _, _)
RemoveEach(res, title, n) ==
    IF n > Len(res) \/ title = <<>> THEN title
    ELSE RemoveEach(res, ReplaceAll(res[n], title, <<" ">>), n + 1)

\* lines 1797-1812
clean_title(title) ==
    Trim(ReplaceAll(<< Lit(<<"[">>) \o <<Rep(Space, 0, Unbounded)>> \o Lit(<<"]">>) >>,
                    ReplaceAll(<< Lit(<<"(">>) \o <<Rep(Space, 0, Unbounded)>> \o Lit(<<")">>) >>,
                               JoinWords(title, 1), <<" ">>),
                    <<" ">>))

\* lines 17-57 with the group and the independent extractors of parse run on
\* the directory name as well
parse_series_directory_AllFields(directory_name) ==
    WithFields(WithGroup(DefaultRelease(directory_name, "series"), directory_name),
               directory_name)

\* lines 17-57 (release_type is "series" whatever the parser's hint)
parse_series_directory(directory_name) ==
    [DefaultRelease(directory_name, "series") EXCEPT
        !.year    = extract_year(directory_name),
        !.tmdb_id = extract_tmdb_id(directory_name),
        !.tvdb_id = extract_tvdb_id(directory_name),
        !.imdb_id = extract_imdb_id(directory_name),
        !.title   = clean_title(
                        RemoveEach(<< RePaddedYear,
                                      <<PaddedBraced(<<"t","m","d","b">>, <<>>)>>,
                                      <<PaddedBraced(<<"t","v","d","b">>, <<>>), Bracketed(<<"t","v","d","b">>, <<>>)>>,
                                      <<PaddedBraced(<<"i","m","d","b">>, <<"t","t">>), Bracketed(<<"i","m","d","b">>, <<"t","t">>)>> >>,
                                   directory_name, 1))]

\* lines 60-94
parse_movie_directory(directory_name) ==
    [DefaultRelease(directory_name, "movie") EXCEPT
        !.year    = extract_year(directory_name),
        !.tmdb_id = extract_tmdb_id(directory_name),
        !.imdb_id = extract_imdb_id(directory_name),
        !.title   = clean_title(
                        RemoveEach(<< RePaddedYear,
                                      <<PaddedBraced(<<"t","m","d","b">>, <<>>), Bracketed(<<"t","m","d","b">>, <<>>)>>,
                                      <<PaddedBraced(<<"i","m","d","b">>, <<"t","t">>), Bracketed(<<"i","m","d","b">>, <<"t","t">>)>> >>,
                                   directory_name, 1))]

\* (?i)Season\s+(\d+)                                           line 99
ReSeasonDirectory ==
    << LitI(<<"S","e","a","s","o","n">>)
       \o <<Rep(Space, 1, Unbounded), Open(1), Rep(Digit, 1, Unbounded), Close(1)>> >>

\* lines 97-107 (the numbers of the model have few digits: none overflows u128)
parse_season_directory(directory_name) ==
    LET cap    == Captures(ReSeasonDirectory, directory_name)
        season == ParseInt(Group(directory_name, cap, 1))
    IN  IF cap.ok /\ season >= 0 THEN Some(season) ELSE None

(***************************************************************************)
(* extract_title (parser.rs 934-1563): the title and the episode title     *)
(***************************************************************************)
\* .+? : any characters but a line feed, as few as possible
AnyLazy == RepNotLazy({"\n"}, 1, Unbounded)

\* S\d{1,2}E\d{1,3}, with the letters as given
SxxExx(s, e) == s \o <<Rep(Digit, 1, 2)>> \o e \o <<Rep(Digit, 1, 3)>>

\* the words of a list as alternatives under (?i)
WordAlts(words) == [n \in 1..Len(words) |-> LitI(words[n])]

\* lines 944 and 972: the words that end a dotted episode title
DottedStops ==
    << <<"G","e","r","m","a","n">>, <<"E","n","g","l","i","s","h">>, <<"F","r","e","n","c","h">>, <<"S","p","a","n","i","s","h">>, <<"I","t","a","l","i","a","n">>, <<"P","o","r","t","u","g","u","e","s","e">>, <<"R","u","s","s","i","a","n">>, <<"D","u","t","c","h">>,
       <<"P","o","l","i","s","h">>, <<"S","w","e","d","i","s","h">>, <<"N","o","r","w","e","g","i","a","n">>, <<"D","a","n","i","s","h">>, <<"F","i","n","n","i","s","h">>, <<"J","a","p","a","n","e","s","e">>, <<"C","h","i","n","e","s","e">>, <<"K","o","r","e","a","n">>,
       <<"A","r","a","b","i","c">>, <<"T","u","r","k","i","s","h">>, <<"N","O","R","D","i","C">>, <<"S","W","E","D","i","S","H">>, <<"N","O","R","W","E","G","i","A","N">>, <<"G","E","R","M","A","N">>, <<"A","N","i","M","E">>, <<"D","L">>,
       <<"B","l","u","R","a","y">>, <<"B","D","R","i","p">>, <<"D","V","D","R","i","p">>, <<"W","E","B","-","D","L">>, <<"H","D","T","V">>, <<"1","0","8","0","p">>, <<"7","2","0","p">>, <<"4","8","0","p">>,
       <<"x","2","6","4">>, <<"x","2","6","5">>, <<"h","2","6","4">>, <<"h","2","6","5">>, <<"H","E","V","C">>, <<"A","V","C">> >>

\* line 986: the words that end the episode title after E<nnn>
EpisodeOnlyStops ==
    << <<"1","0","8","0","p">>, <<"7","2","0","p">>, <<"4","8","0","p">>, <<"V","I","U">>, <<"W","E","B","-","D","L">>, <<"W","E","B","D","L">>, <<"W","E","B","R","i","p">>, <<"H","2","6","4">>,
       <<"H","2","6","5">>, <<"H",".","2","6","4">>, <<"H",".","2","6","5">>, <<"x","2","6","4">>, <<"x","2","6","5">>, <<"h","2","6","4">>, <<"h","2","6","5">>, <<"H","E","V","C">>,
       <<"A","V","C">>, <<"A","A","C">>, <<"A","C","3">>, <<"D","T","S">> >>

\* line 1001
stop_words ==
    << <<"G","e","r","m","a","n">>, <<"E","n","g","l","i","s","h">>, <<"F","r","e","n","c","h">>, <<"S","p","a","n","i","s","h">>, <<"I","t","a","l","i","a","n">>, <<"P","o","r","t","u","g","u","e","s","e">>, <<"R","u","s","s","i","a","n">>, <<"D","u","t","c","h">>,
       <<"P","o","l","i","s","h">>, <<"S","w","e","d","i","s","h">>, <<"N","o","r","w","e","g","i","a","n">>, <<"D","a","n","i","s","h">>, <<"F","i","n","n","i","s","h">>, <<"J","a","p","a","n","e","s","e">>, <<"C","h","i","n","e","s","e">>, <<"K","o","r","e","a","n">>,
       <<"A","r","a","b","i","c">>, <<"T","u","r","k","i","s","h">>, <<"N","O","R","D","i","C">>, <<"S","W","E","D","i","S","H">>, <<"N","O","R","W","E","G","i","A","N">>, <<"G","E","R","M","A","N">>, <<"D","L">>, <<"T","V">>,
       <<"D","u","b","b","e","d">>, <<"S","u","b","b","e","d">>, <<"B","l","u","R","a","y">>, <<"B","D","R","i","p">>, <<"D","V","D","R","i","p">>, <<"W","E","B","-","D","L">>, <<"H","D","T","V">>, <<"1","0","8","0","p">>,
       <<"7","2","0","p">>, <<"4","8","0","p">>, <<"x","2","6","4">>, <<"x","2","6","5">>, <<"h","2","6","4">>, <<"h","2","6","5">>, <<"H","E","V","C">>, <<"A","V","C">>,
       <<"S","V","C","D">>, <<"V","C","D">>, <<"R","E","A","D">>, <<"N","F","O">> >>

\* (?i)(.+?)\.(S\d{1,2}E\d{1,3})\.(.+?)\.   the beginning of lines 944, 972, 1003
DottedEpisode ==
    <<Open(1), AnyLazy, Close(1)>> \o Lit(<<".">>)
    \o <<Open(2)>> \o SxxExx(LitI(<<"S">>), LitI(<<"E">>)) \o <<Close(2)>> \o Lit(<<".">>)
    \o <<Open(3), AnyLazy, Close(3)>> \o Lit(<<".">>)

\* (19|20|21)\d{2}
Century == <<AnyOf(<<Lit(<<"1","9">>), Lit(<<"2","0">>), Lit(<<"2","1">>)>>), Rep(Digit, 2, 2)>>

\* lines 948-965 and 1522-1538: a title without its year, dots as blanks
WithoutYear(main_title) ==
    Trim(ReplaceAll(
             << <<WordB>> \o Century \o <<WordB>> >>,
             Replace(Trim(ReplaceAll(
                              << Century \o <<Eos>> >>,
                              ReplaceAll(<< Lit(<<".">>) \o Century
                                            \o <<AnyOf(<<Lit(<<".">>), <<Eos>>>>)>> >>,
                                         main_title, <<".">>),
                              <<>>)),
                     <<".">>, <<" ">>),
             <<>>))

\* .replace(".", " ").trim()
Undotted(s) == Trim(Replace(s, <<".">>, <<" ">>))

\* a pair (title, episode_title)
Titles(title, episode_title) == [title |-> title, episode_title |-> episode_title]

\* lines 945-967: the title loses its year
DottedWithYear(release_name, caps) ==
    IF caps.ok
    THEN Some(Titles(clean_title(WithoutYear(Group(release_name, caps, 1))),
                     clean_title(Undotted(Group(release_name, caps, 3)))))
    ELSE None

\* lines 973-981, 987-995 and 1005-1014: group g is the episode title, which
\* may be required not to be empty
Dotted(release_name, caps, g, may_be_empty) ==
    IF caps.ok /\ (may_be_empty \/ Undotted(Group(release_name, caps, g)) /= <<>>)
    THEN Some(Titles(clean_title(Undotted(Group(release_name, caps, 1))),
                     clean_title(Undotted(Group(release_name, caps, g)))))
    ELSE None

\* lines 1002-1017: the stop words in turn
DottedUntilStop(release_name) ==
    FirstSome([n \in DOMAIN stop_words |->
                  Dotted(release_name,
                         Captures(<< DottedEpisode \o LitI(stop_words[n])
                                     \o <<AnyOf(<<Lit(<<".">>), <<Eos>>>>)>> >>, release_name),
                         3, FALSE)])

\* \s*-\s*
Dash == <<Rep(Space, 0, Unbounded)>> \o Lit(<<"-">>) \o <<Rep(Space, 0, Unbounded)>>

\* ([^-\[\{]+)
UntilDashOrBracket == <<Open(1), RepNot({"-", "[", "{"}, 1, Unbounded), Close(1)>>

\* \d{3}(?:-\d{3})?
EpisodeNumberOrRange == <<Rep(Digit, 3, 3), Opt(Lit(<<"-">>) \o <<Rep(Digit, 3, 3)>>)>>

\* \d{4}-\d{2}-\d{2}
DateDigits ==
    <<Rep(Digit, 4, 4)>> \o Lit(<<"-">>) \o <<Rep(Digit, 2, 2)>> \o Lit(<<"-">>) \o <<Rep(Digit, 2, 2)>>

\* lines 1027-1050: the year in parentheses, the identifiers and the edition
\* taken out of the main title
WithoutMarkers(main_title) ==
    RemoveEach(<< RePaddedYear,
                  <<PaddedBraced(<<"t","m","d","b">>, <<>>)>>,
                  <<PaddedBraced(<<"t","v","d","b">>, <<>>)>>,
                  <<PaddedBraced(<<"i","m","d","b">>, <<"t","t">>), Bracketed(<<"i","m","d","b">>, <<"t","t">>)>>,
                  <<Bracketed(<<"t","m","d","b">>, <<>>)>>,
                  << <<Rep(Space, 0, Unbounded)>> \o Lit(<<"{","e","d","i","t","i","o","n","-">>)
                     \o <<RepNot({"}"}, 1, Unbounded)>> \o Lit(<<"}">>)
                     \o <<Rep(Space, 0, Unbounded)>> >> >>,
               main_title, 1)

\* lines 1021-1056, 1060-1086 and 1090-1116: the episode title after a dashed
\* marker (caps) and the main title before it (title_caps); without a main
\* title the first form alone returns
Dashed(release_name, caps, title_caps, alone) ==
    IF ~caps.ok THEN None
    ELSE IF title_caps.ok
    THEN Some(Titles(clean_title(WithoutMarkers(Group(release_name, title_caps, 1))),
                     clean_title(Trim(Group(release_name, caps, 1)))))
    ELSE IF alone
    THEN Some(Titles(<<>>, clean_title(Trim(Group(release_name, caps, 1)))))
    ELSE None

\* ^(.+?)\s*-\s*  the beginning of lines 1024, 1062, 1092
TitleBeforeDash == <<Bos, Open(1), AnyLazy, Close(1)>> \o Dash

\* lines 940-1118: the forms of a tv name that carry an episode title, in
\* their order.  The forms that begin like DottedEpisode match no name that
\* has no ".SxxEyy." in it (dotted).
FormsInOrder(release_name, dotted) ==
    OrSome(IF dotted
           THEN DottedWithYear(
                    release_name,
                    Captures(<< DottedEpisode
                                \o <<AnyOf(WordAlts(DottedStops) \o << <<Rep(Digit, 4, 4)>> >>)>> >>,
                             release_name))
           ELSE None,
    OrSome(IF dotted
           THEN Dotted(release_name,
                       Captures(<< DottedEpisode \o <<AnyOf(WordAlts(DottedStops))>> >>,
                                release_name),
                       3, TRUE)
           ELSE None,
    OrSome(Dotted(release_name,
                  Captures(<< <<Open(1), AnyLazy, Close(1)>> \o Lit(<<".">>) \o LitI(<<"E">>)
                              \o <<Rep(Digit, 3, Unbounded)>> \o Lit(<<".">>)
                              \o <<Open(2), AnyLazy, Close(2)>> \o Lit(<<".">>)
                              \o <<AnyOf(WordAlts(EpisodeOnlyStops))>> >>, release_name),
                  2, TRUE),
    OrSome(IF dotted THEN DottedUntilStop(release_name) ELSE None,
    OrSome(Dashed(release_name,
                  Captures(<< Dash \o SxxExx(LitI(<<"S">>), LitI(<<"E">>))
                              \o <<Opt(LitI(<<"-","E">>) \o <<Rep(Digit, 1, 3)>>)>>
                              \o Dash \o UntilDashOrBracket >>, release_name),
                  Captures(<< TitleBeforeDash \o SxxExx(Lit(<<"S">>), Lit(<<"E">>)) >>,
                           release_name),
                  TRUE),
    OrSome(Dashed(release_name,
                  Captures(<< Dash \o DateDigits \o Dash \o UntilDashOrBracket >>,
                           release_name),
                  Captures(<< TitleBeforeDash \o DateDigits >>, release_name),
                  FALSE),
           Dashed(release_name,
                  Captures(<< Dash \o EpisodeNumberOrRange \o Dash \o UntilDashOrBracket >>,
                           release_name),
                  Captures(<< TitleBeforeDash \o EpisodeNumberOrRange >>, release_name),
                  FALSE)))))))

EpisodicTitles(release_name) ==
    FormsInOrder(release_name,
                 IsMatch(<< <<Open(1), AnyLazy, Close(1)>> \o Lit(<<".">>)
                            \o SxxExx(LitI(<<"S">>), LitI(<<"E">>)) \o Lit(<<".">>) >>,
                         release_name))

\* \[([^\]]+)\]   lines 1130 and 1203
ReBracket ==
    << Lit(<<"[">>) \o <<Open(1), RepNot({"]"}, 1, Unbounded), Close(1)>> \o Lit(<<"]">>) >>

\* str::starts_with and str::ends_with
StartsWith(s, prefix) == ContainsAt(s, prefix, 1)

EndsWith(s, suffix) == Len(suffix) <= Len(s) /\ ContainsAt(s, suffix, Len(s) - Len(suffix) + 1)

\* split_whitespace().collect()
NonEmptySplit(joined) == IF joined = <<>> THEN <<>> ELSE Split(joined, " ")

Words(s) == NonEmptySplit(JoinWords(s, 1))

\* lines 1135-1140: the bracket is the group's
IsGroupBracket(bracket_content, group) ==
    /\ group /= <<>>
    /\ \/ bracket_content = Trim(group)
       \/ Replace(bracket_content, <<" ">>, <<>>) = Replace(Trim(group), <<" ">>, <<>>)

\* lines 1150-1161: what a title bracket does not contain
NotTitleWords ==
    << <<"W","E","B","-","D","L">>, <<"W","E","B","R","i","p">>, <<"W","E","B","D","L">>, <<"M","u","l","t","i","S","u","b">>, <<"M","u","l","t","i","-","S","u","b","s">>, <<"S","u","r","r","o","u","n","d"," ","S","o","u","n","d">>,
       <<"x","2","6","4">>, <<"x","2","6","5">>, <<"h","2","6","4">>, <<"h","2","6","5">>, <<"H","E","V","C">>, <<"A","V","C">> >>

\* lines 1142-1166: a bracket of two words or more, each with an ASCII letter,
\* that is neither the group nor metadata
TitleBracket(bracket_content, group) ==
    /\ ~IsGroupBracket(bracket_content, group)
    /\ Len(Words(bracket_content)) >= 2
    /\ \A n \in DOMAIN Words(bracket_content) :
           \E i \in DOMAIN Words(bracket_content)[n] :
               Words(bracket_content)[n][i] \in Upper \cup Lower
    /\ ~AnyIgnoreCase(<<<<"A","V","C">>, <<"G","B">>, <<"1","0","8","0","P">>, <<"7","2","0","p">>, <<"1","0","8","0","p">>>>, bracket_content)
    /\ \A n \in DOMAIN NotTitleWords : ~Contains(bracket_content, NotTitleWords[n])
    /\ ~\A i \in DOMAIN bracket_content : bracket_content[i] \in AsciiDigit

\* lines 1129-1175: the first title bracket of a tv name that begins with '['
BracketTitle(release_name, group, brackets) ==
    FirstSome([n \in DOMAIN brackets |->
                  IF TitleBracket(Trim(Group(release_name, brackets[n], 1)), group)
                  THEN Some(Titles(clean_title(Trim(Group(release_name, brackets[n], 1))), <<>>))
                  ELSE None])

\* lines 1187-1190 and 1506-1509
NamesGroup(potential_group, group) ==
    \/ EqIgnoreAsciiCase(Trim(potential_group), Trim(group))
    \/ EqIgnoreAsciiCase(Replace(Trim(potential_group), <<" ">>, <<>>),
                         Replace(Trim(group), <<" ">>, <<>>))

\* lines 1182-1193 and 1502-1513: the name after its leading bracket when
\* that bracket (cap, of ^\[([^\]]+)\]) names the group
AfterGroupBracket(release_name, group, cap) ==
    IF group /= <<>> /\ StartsWith(release_name, <<"[">>) /\ cap.ok
       /\ NamesGroup(Group(release_name, cap, 1), group)
    THEN Trim(SubSeq(release_name, cap.end, Len(release_name)))
    ELSE release_name

\* working[..pos] for pos = working.rfind('-')
BeforeLastDash(working) ==
    IF \E n \in 1..Len(working) : working[n] = "-"
    THEN SubSeq(working, 1,
                (CHOOSE n \in 1..Len(working) :
                     /\ working[n] = "-"
                     /\ \A j \in (n + 1)..Len(working) : working[j] /= "-") - 1)
    ELSE working

\* ^\[([^\]]+)\]
ReLeadingBracket ==
    << <<Bos>> \o Lit(<<"[">>) \o <<Open(1), RepNot({"]"}, 1, Unbounded), Close(1)>> \o Lit(<<"]">>) >>

\* lines 1179-1198
WithoutGroup(working, group) ==
    IF group /= <<>> /\ ~StartsWith(working, <<"[">>)
    THEN BeforeLastDash(working)
    ELSE AfterGroupBracket(working, group, Captures(ReLeadingBracket, working))

\* lines 1208-1241: the keywords of a metadata bracket
BracketMetadata ==
    << <<"R","e","m","u","x">>, <<"T","r","u","e","H","D">>, <<"D","T","S","-","H","D">>, <<"D","T","S"," ","H","D">>, <<"E","A","C","3">>, <<"W","E","B","-","D","L">>, <<"W","E","B","R","i","p">>, <<"W","E","B","D","L">>,
       <<"B","l","u","R","a","y">>, <<"B","l","u","r","a","y">>, <<"x","2","6","4">>, <<"x","2","6","5">>, <<"h","2","6","4">>, <<"h","2","6","5">>, <<"H","E","V","C">>, <<"A","V","C">>,
       <<"A","A","C">>, <<"A","C","3">>, <<"D","T","S">>, <<"M","u","l","t","i","S","u","b">>, <<"M","u","l","t","i","-","S","u","b","s">>, <<"H","D","R","1","0">>, <<"D","V"," ","H","D","R","1","0">>, <<"H","D","R","1","0","P","l","u","s">>,
       <<"D","V"," ","H","D","R","1","0","P","l","u","s">>, <<"1","0","8","0","p">>, <<"7","2","0","p">>, <<"2","1","6","0","p">>, <<"4","8","0","p">>, <<"G","B">>, <<"S","u","r","r","o","u","n","d"," ","S","o","u","n","d">>, <<"i","m","d","b","i","d">>,
       <<"i","m","d","b">>, <<"t","m","d","b">> >>

\* lines 1208-1251
IsMetadataBracket(bracket_content) ==
    \/ \E n \in DOMAIN BracketMetadata : Contains(bracket_content, BracketMetadata[n])
    \/ AnyIgnoreCase(<<<<"A","V","C">>, <<"G","B">>, <<"1","0","8","0","P">>>>, bracket_content)
    \/ \A i \in DOMAIN bracket_content :
           bracket_content[i] \in AsciiDigit \cup Upper \cup {" ", "-", "."}

\* lines 1203-1261: every occurrence of each metadata bracket of the string
\* `from` becomes a blank
RECURSIVE WithoutBrackets(_, _, _, _)
WithoutBrackets(working, from, brackets, n) ==
    IF n > Len(brackets) THEN working
    ELSE WithoutBrackets(
             IF IsMetadataBracket(Group(from, brackets[n], 1))
             THEN Replace(working, SubSeq(from, brackets[n].start, brackets[n].end - 1), <<" ">>)
             ELSE working,
             from, brackets, n + 1)

Unbracketed(working) ==
    WithoutBrackets(working, working, CapturesIter(ReBracket, working), 1)

\* \[\s*\]
ReEmptyBracket == << Lit(<<"[">>) \o <<Rep(Space, 0, Unbounded)>> \o Lit(<<"]">>) >>

\* \(\s*\)
ReEmptyParen == << Lit(<<"(">>) \o <<Rep(Space, 0, Unbounded)>> \o Lit(<<")">>) >>

\* site(?:id)?-lead\d+
SiteId(site, lead) ==
    Lit(site) \o <<Opt(Lit(<<"i","d">>))>> \o Lit(<<"-">>) \o Lit(lead) \o <<Rep(Digit, 1, Unbounded)>>

\* \{edition-[^}]+\}
ReEdition == << Lit(<<"{","e","d","i","t","i","o","n","-">>) \o <<RepNot({"}"}, 1, Unbounded)>> \o Lit(<<"}">>) >>

\* lines 1264-1310, in order
Markers ==
    << ReEmptyBracket,
       << Lit(<<"[">>) \o <<Rep(Space, 1, Unbounded)>> \o Lit(<<"]">>) >>,
       << Lit(<<"{","t","m","d","b","-">>) \o <<Rep(Digit, 1, Unbounded)>> \o Lit(<<"}">>) >>,
       << Lit(<<"{","t","v","d","b","-">>) \o <<Rep(Digit, 1, Unbounded)>> \o Lit(<<"}">>),
          Lit(<<"[">>) \o SiteId(<<"t","v","d","b">>, <<>>) \o Lit(<<"]">>) >>,
       << Lit(<<"{","i","m","d","b","-","t","t">>) \o <<Rep(Digit, 1, Unbounded)>> \o Lit(<<"}">>),
          Lit(<<"[">>) \o SiteId(<<"i","m","d","b">>, <<"t","t">>) \o Lit(<<"]">>) >>,
       ReEdition,
       << Lit(<<"[">>) \o SiteId(<<"t","m","d","b">>, <<>>) \o Lit(<<"]">>) >>,
       ReEdition,
       << Lit(<<"(">>) \o <<Rep(Digit, 4, 4)>> \o Lit(<<")">>) >>,
       << Lit(<<"[">>) \o <<Rep(Digit, 4, 4)>> \o Lit(<<"]">>) >> >>

\* \.(mkv|mp4|avi|mov|wmv|flv|webm|m4v)$   lines 1338 and 1434
ReExtension ==
    << Lit(<<".">>)
       \o <<AnyOf(<< Lit(<<"m","k","v">>), Lit(<<"m","p","4">>), Lit(<<"a","v","i">>), Lit(<<"m","o","v">>), Lit(<<"w","m","v">>), Lit(<<"f","l","v">>), Lit(<<"w","e","b","m">>), Lit(<<"m","4","v">>) >>), Eos>> >>

\* line 1323: what marks a parenthesis as metadata
ParenMetadata ==
    << <<"W","E","B","-","D","L">>, <<"W","E","B","R","i","p">>, <<"W","E","B","D","L">>, <<"C","R">>, <<"N","F">>, <<"A","M","Z","N">>, <<"H","2","6","4">>, <<"H","2","6","5">>,
       <<"H",".","2","6","4">>, <<"H",".","2","6","5">>, <<"A","A","C">>, <<"D","D","P">>, <<"2",".","0">>, <<"5",".","1">> >>

\* lines 1313-1339
patterns_to_remove ==
    << << SxxExx(LitI(<<"S">>), LitI(<<"E">>)) \o <<Opt(LitI(<<"-","E">>) \o <<Rep(Digit, 1, 3)>>)>> >>,
       << LitI(<<"E">>) \o <<Rep(Digit, 1, 3)>> \o LitI(<<"E">>) \o <<Rep(Digit, 1, 3)>> >>,
       << <<WordB>> \o LitI(<<"E">>) \o <<Rep(Digit, 3, Unbounded), WordB>> >>,
       << LitI(<<"S">>) \o <<Rep(Digit, 1, 2)>> \o Dash \o <<Rep(Digit, 1, 3)>> >>,
       << <<Rep(Digit, 1, 2)>> \o LitI(<<"x">>) \o <<Rep(Digit, 1, 3)>> >>,
       << LitI(<<"S","e","a","s","o","n">>) \o <<Rep(Space, 0, Unbounded), Rep(Digit, 1, 2), Rep(Space, 0, Unbounded)>>
          \o LitI(<<"E","p","i","s","o","d","e">>) \o <<Rep(Space, 0, Unbounded), Rep(Digit, 1, 3)>> >>,
       << <<WordB>> \o Century \o <<WordB>> >>,
       << <<Rep(Digit, 3, 4), One({"p", "i", "P", "I"})>> >>,
       << Lit(<<"(">>) \o <<Rep(Digit, 3, 4)>> \o Lit(<<"p",")">>) >>,
       << Lit(<<"(">>)
          \o <<RepNot({")"}, 0, Unbounded),
               AnyOf(<< <<Rep(Digit, 1, Unbounded)>> \o Lit(<<"p">>) >>
                     \o [n \in DOMAIN ParenMetadata |-> Lit(ParenMetadata[n])]),
               RepNot({")"}, 0, Unbounded)>>
          \o Lit(<<")">>) >>,
       << LitI(<<"R","E","A","D">>) \o <<Rep({"."}, 0, 1)>> \o LitI(<<"N","F","O">>) >>,
       << LitI(<<"P","R","O","P","E","R">>) >>,
       << LitI(<<"R","E","P","A","C","K">>) >>,
       << Lit(<<"[","E","n","g",".","H","a","r","d",".","S","u","b","]">>) >>,
       << Lit(<<"[","U","-","E","d","i","t","i","o","n","]">>) >>,
       << LitI(<<"D","D","P">>) \o <<Rep(Digit, 1, Unbounded)>> \o Lit(<<".">>) \o <<Rep(Digit, 1, Unbounded)>> >>,
       << <<WordB>> \o LitI(<<"D","D","P">>) \o <<Rep(Digit, 1, Unbounded), WordB>> >>,
       << LitI(<<"E","p","i","s","o","d","e">>) \o <<Rep(Space, 1, Unbounded), Rep(Digit, 1, Unbounded)>> >>,
       << <<WordB, AnyOf(<<LitI(<<"A","A","C">>), LitI(<<"A","C","3">>), LitI(<<"D","T","S">>), LitI(<<"D","D","P">>)>>),
            Rep(Space, 1, Unbounded), Rep(Digit, 1, Unbounded)>>
          \o Lit(<<".">>) \o <<Rep(Digit, 1, Unbounded), WordB>> >>,
       ReExtension >>

\* lines 1344-1406.  Of the list's entries the model keeps, in their order,
\* those that the loop of line 1408 finds in a name it draws; an entry that
\* it finds in none of them leaves every one of them as it is.
remove_list ==
    << <<"W","E","B","-","D","L">>, <<"W","E","B","D","L">>, <<"H","D","T","V">>, <<"B","l","u","R","a","y">>, <<"R","e","m","u","x">>,
       <<"x","2","6","4">>, <<"H",".","2","6","4">>, <<"H",".","2","6","5">>, <<"G","e","r","m","a","n">>, <<"D","L">>, <<"E","d","i","t","i","o","n">>, <<"D","I","S","C">>, <<"N","F">> >>

\* line 1411: (?i)\bitem\b|\.item\b|\bitem\.
Removable(item) ==
    << <<WordB>> \o LitI(item) \o <<WordB>>,
       Lit(<<".">>) \o LitI(item) \o <<WordB>>,
       <<WordB>> \o LitI(item) \o Lit(<<".">>) >>

\* lines 1422-1430
WithoutProvider(working, streaming_provider) ==
    IF streaming_provider /= <<>>
    THEN ReplaceAll(Removable(streaming_provider), working, <<" ">>)
    ELSE working

\* lines 1433-1471: the extension, long numbers in brackets, empty
\* parentheses and brackets go, dots and dashes become blanks, blanks are
\* squeezed
Tidy(working) ==
    Trim(RemoveEach(
        <<ReEmptyBracket, ReEmptyParen>>,
        Trim(JoinWords(
            Replace(Replace(
                RemoveEach(
                    << << Lit(<<"[">>) \o <<Rep(Digit, 6, Unbounded)>> \o Lit(<<"]">>) >>,
                       ReEmptyParen,
                       << <<WordB>> \o LitI(<<"D","D","P">>)
                          \o <<Rep(Digit, 1, Unbounded), Rep(Space, 1, Unbounded),
                               Rep(Digit, 1, Unbounded), WordB>> >>,
                       ReEmptyBracket >>,
                    ReplaceAll(ReExtension, working, <<>>), 1),
                <<".">>, <<" ">>), <<"-">>, <<" ">>),
            1)),
        1))

\* working[prefix.len()..].trim() when working starts with the prefix
StripPrefix(working, prefix) ==
    IF StartsWith(working, prefix)
    THEN Trim(SubSeq(working, Len(prefix) + 1, Len(working)))
    ELSE working

\* lines 1486-1491
StripGroupAtEnd(working, group) ==
    IF EndsWith(working, <<" ">> \o group)
    THEN Trim(SubSeq(working, 1, Len(working) - Len(group) - 1))
    ELSE IF EndsWith(working, group)
    THEN Trim(SubSeq(working, 1, Len(working) - Len(group)))
    ELSE working

\* lines 1474-1497
WithoutGroupInTitle(working, group) ==
    IF group = <<>> THEN working
    ELSE Trim(Replace(Replace(StripGroupAtEnd(
                                  StripPrefix(StripPrefix(working, <<"[">> \o Trim(group) \o <<"]">>),
                                              <<"[">> \o group \o <<"]">>),
                                  Trim(group)),
                              <<" ">> \o Trim(group), <<" ">>),
                      Trim(group), <<" ">>))

\* lines 1119 and 1178-1497: the name without what is not its title
Cleaned(release_name, group, streaming_provider) ==
    WithoutGroupInTitle(
        Tidy(WithoutProvider(
                 RemoveEach([n \in DOMAIN remove_list |-> Removable(remove_list[n])],
                            RemoveEach(patterns_to_remove,
                                       RemoveEach(Markers,
                                                  Unbracketed(WithoutGroup(release_name, group)),
                                                  1),
                                       1),
                            1),
                 streaming_provider)),
        group)

\* lines 1518-1541: the title before SxxEyy and all that follows it
OldFormat(working_for_split, caps) ==
    IF caps.ok
    THEN Some(Titles(clean_title(WithoutYear(Trim(Group(working_for_split, caps, 1)))),
                     clean_title(Replace(Trim(Group(working_for_split, caps, 2)),
                                         <<".">>, <<" ">>))))
    ELSE None

\* lines 1547-1558: "Title 5 - 01", the title loses a country code like (CA)
AnimeFormat(working_for_split, caps) ==
    IF caps.ok
    THEN Some(Titles(clean_title(Trim(ReplaceAll(
                         << <<Rep(Space, 0, Unbounded)>> \o Lit(<<"(">>) \o <<Rep(Upper, 2, 2)>>
                            \o Lit(<<")">>) \o <<Rep(Space, 0, Unbounded), Eos>> >>,
                         Trim(Group(working_for_split, caps, 1)), <<>>))),
                     <<>>))
    ELSE None

\* lines 1499-1559
SplitTitles(working_for_split) ==
    OrSome(OldFormat(working_for_split,
                     Captures(<< <<Open(1), AnyLazy, Close(1), Rep({".", " "}, 1, Unbounded)>>
                                 \o SxxExx(LitI(<<"S">>), LitI(<<"E">>))
                                 \o <<Rep({".", " "}, 1, Unbounded),
                                      Open(2), RepNot({"\n"}, 1, Unbounded), Close(2)>> >>,
                              working_for_split)),
           AnimeFormat(working_for_split,
                       Captures(<< <<Open(1), AnyLazy, Close(1), Rep(Space, 1, Unbounded),
                                     Open(2), Rep(Digit, 1, 2), Close(2)>>
                                   \o Dash \o <<Open(3), Rep(Digit, 1, 3), Close(3)>> >>,
                                working_for_split)))

\* lines 934-1563: only a tv name has the forms tried before the default
TvTitles(release_name, group) ==
    OrSome(EpisodicTitles(release_name),
    OrSome(IF StartsWith(release_name, <<"[">>)
           THEN BracketTitle(release_name, group, CapturesIter(ReBracket, release_name))
           ELSE None,
           SplitTitles(AfterGroupBracket(release_name, group,
                                         Captures(ReLeadingBracket, release_name)))))

extract_title(release_type, release_name, parsed) ==
    UnwrapOr(IF release_type = "tv" THEN TvTitles(release_name, parsed.group) ELSE None,
             Titles(clean_title(Cleaned(release_name, parsed.group, parsed.streaming_provider)),
                    <<>>))

\* lines 291-301: the date and the streaming provider
WithProvider(parsed, release_name) ==
    [parsed EXCEPT
        !.date               = OrSome(extract_date(release_name), @),
        !.streaming_provider = extract_streaming_provider(release_name)]

\* lines 303-306 with the cleaned title stored in `release` as well
WithTitles_Release(parsed, titles) ==
    [parsed EXCEPT !.title = titles.title, !.episode_title = titles.episode_title,
                   !.release = titles.title]

\* lines 303-306
WithTitles(parsed, titles) ==
    [parsed EXCEPT !.title = titles.title, !.episode_title = titles.episode_title]

\* lines 291-313: the date, the streaming provider, the titles, the disc
WithRest(parsed, release_type, release_name) ==
    [WithTitles(WithProvider(parsed, release_name),
                extract_title(release_type, release_name, WithProvider(parsed, release_name)))
        EXCEPT !.disc = OrSome(extract_disc(release_name), @)]

(***************************************************************************)
(* std::path::Path as parse_path uses it (parser.rs 115-143).  A path is   *)
(* its components: whether it has a root, and the names; "." is dropped    *)
(* except at the beginning, empty names (repeated or trailing separators)  *)
(* are dropped.                                                            *)
(***************************************************************************)
\* line 115: file_path.replace('\\', "/")
Normalize(file_path) ==
    [i \in 1..Len(file_path) |-> IF file_path[i] = "\\" THEN "/" ELSE file_path[i]]

\* Path::new(&normalized_path), line 116
PathOf(normalized) ==
    LET segs   == Split(normalized, "/")
        rooted == Len(normalized) > 0 /\ normalized[1] = "/"
        keep(i) == /\ segs[i] /= <<>>
                   /\ (segs[i] = <<".">> => (i = 1 /\ ~rooted))
        idx    == {i \in 1..Len(segs) : keep(i)}
    IN  [root  |-> rooted,
         comps |-> [k \in 1..Cardinality(idx) |->
                       segs[CHOOSE i \in idx : Cardinality({j \in idx : j < i}) = k - 1]]]

\* Path::file_name: the last component if it is a normal name
file_name(path) ==
    LET n == Len(path.comps) IN
    IF n > 0 /\ path.comps[n] /= <<".", ".">> /\ path.comps[n] /= <<".">>
    THEN Some(path.comps[n])
    ELSE None

\* Path::parent: the path without its last component; None for a root or ""
parent(path) ==
    IF Len(path.comps) > 0
    THEN Some([path EXCEPT !.comps = SubSeq(path.comps, 1, Len(path.comps) - 1)])
    ELSE None

\* Path::file_stem: the file name up to its last dot (all of it if the only dot
\* is the first character or there is none)
file_stem(path) ==
    LET name == file_name(path)
        dots == {i \in 1..Len(name[1]) : name[1][i] = "."}
        last == CHOOSE i \in dots : \A j \in dots : j <= i
    IN  IF ~IsSome(name) THEN None
        ELSE IF dots = {} \/ last = 1 THEN name
        ELSE Some(SubSeq(name[1], 1, last - 1))

\* lines 125-129: the release type the file name suggests
InferredType(file_parsed) ==
    IF IsSome(file_parsed.season) \/ IsSome(file_parsed.episode) THEN "tv" ELSE "movie"

\* lines 139-143 taking the parent's name even when it is a season directory
SeriesDir_ParentOnly(parent_path, season) == file_name(parent_path)

\* lines 139-143 taking the name of the directory above the parent whenever
\* there is one, season directory or not
SeriesDir_GrandparentFirst(parent_path, season) ==
    IF IsSome(parent(parent_path)) /\ IsSome(file_name(parent(parent_path)[1]))
    THEN file_name(parent(parent_path)[1])
    ELSE file_name(parent_path)

\* lines 139-143: the name of the series/movie directory; None is an early return
SeriesDir(parent_path, season) ==
    IF IsSome(season)
    THEN IF IsSome(parent(parent_path)) THEN file_name(parent(parent_path)[1]) ELSE None
    ELSE file_name(parent_path)

\* lines 146-151
DirectoryOf(release_type, series_dir) ==
    IF release_type = "tv"
    THEN Some(parse_series_directory(series_dir))
    ELSE Some(parse_movie_directory(series_dir))

\* lines 124-159: Option<PathInfo>, given the parsed file name
PathInfoOf(file_path, file_parsed) ==
    LET path            == PathOf(Normalize(file_path))
        release_type    == InferredType(file_parsed)
        parent_path     == parent(path)
        season_dir_name == file_name(parent_path[1])
        season          == parse_season_directory(season_dir_name[1])
        series_dir      == SeriesDir(parent_path[1], season)
    IN  IF ~IsSome(parent_path) THEN None
        ELSE IF ~IsSome(season_dir_name) THEN None
        ELSE IF ~IsSome(series_dir) THEN None
        ELSE Some([directory |-> DirectoryOf(release_type, series_dir[1]),
                   season    |-> season,
                   file      |-> file_parsed,
                   full_path |-> file_path])

(***************************************************************************)
(* ParsedRelease::get (types.rs 36-72).  The receiver is a whole           *)
(* ParsedRelease: the record of the stages above together with the plain   *)
(* string fields that no stage above fills.                                *)
(***************************************************************************)
\* u128::to_string, u16::to_string, u8::to_string: the decimal digits
RECURSIVE to_string(_)
to_string(n) ==
    IF n < 10 THEN <<DigitSeq[n + 1]>>
    ELSE to_string(n \div 10) \o <<DigitSeq[(n % 10) + 1]>>

\* Option::map(|y| y.to_string())
map_to_string(found) == IF IsSome(found) THEN Some(to_string(found[1])) ELSE None

\* .collect::<Vec<_>>().join(",")
RECURSIVE Join(_, _)
Join(strs, sep) ==
    IF Len(strs) = 0 THEN <<>>
    ELSE IF Len(strs) = 1 THEN strs[1]
    ELSE strs[1] \o sep \o Join(Tail(strs), sep)

\* lines 47-51 without the test `is_empty()`: an empty list is rendered as ""
JoinedEpisodes_Always(episodes) ==
    Some(Join([i \in 1..Len(episodes) |-> to_string(episodes[i])], <<",">>))

\* lines 47-51
JoinedEpisodes(episodes) ==
    IF episodes = <<>> THEN None
    ELSE Some(Join([i \in 1..Len(episodes) |-> to_string(episodes[i])], <<",">>))

\* the fields title_extra, audio, device, os, version, hdr (types.rs 7, 20-23,
\* 29) of the default record
DefaultStrings ==
    [title_extra |-> <<>>, audio |-> <<>>,
     device |-> <<>>, os |-> <<>>, version |-> <<>>, hdr |-> <<>>]

\* a ParsedRelease with all its fields
Whole(parsed, strings) == parsed @@ strings

get(self, field) ==
    CASE field = "release"            -> Some(self.release)
      [] field = "title"              -> Some(self.title)
      [] field = "title_extra"        -> Some(self.title_extra)
      [] field = "episode_title"      -> Some(self.episode_title)
      [] field = "group"              -> Some(self.group)
      [] field = "year"               -> map_to_string(self.year)
      [] field = "date"               -> self.date
      [] field = "season"             -> map_to_string(self.season)
      [] field = "episode"            -> map_to_string(self.episode)
      [] field = "episodes"           -> JoinedEpisodes(self.episodes)
      [] field = "disc"               -> map_to_string(self.disc)
      [] field = "source"             -> Some(self.source)
      [] field = "format"             -> Some(self.format)
      [] field = "resolution"         -> Some(self.resolution)
      [] field = "audio"              -> Some(self.audio)
      [] field = "device"             -> Some(self.device)
      [] field = "os"                 -> Some(self.os)
      [] field = "version"            -> Some(self.version)
      [] field = "tmdb_id"            -> self.tmdb_id
      [] field = "tvdb_id"            -> self.tvdb_id
      [] field = "imdb_id"            -> self.imdb_id
      [] field = "edition"            -> self.edition
      [] field = "hdr"                -> Some(self.hdr)
      [] field = "streaming_provider" -> Some(self.streaming_provider)
      [] field = "type"               -> Some(self.release_type)
      [] OTHER                        -> None

(***************************************************************************)
(* The inputs: release names are up to MaxTokens markers joined by a       *)
(* separator, plus the degenerate strings; paths are an optional root, up  *)
(* to MaxDirs directory segments and a file name.                          *)
(***************************************************************************)
MaxTokens == 2
MaxDirs == 2

\* season/episode markers: every tier of extract_season_episode, the fallback and extract_episode_number
EpisodeTokens ==
    { <<"S","0","1","E","0","1","-","E","0","3">>,
      <<"S","0","1","E","0","0","1","-","E","0","0","3">>,
      <<"S","0","2","E","0","5">>,
      <<"S","0","0","E","0","1">>,
      <<"S","1","E","5","-","E","3">>,
      <<"E","0","1","E","0","2">>,
      <<"E","7","8","0">>,
      <<"E","p","i","s","o","d","e"," ","6","1">>,
      <<"[","1","1","9","]">>,
      <<"-"," ","0","0","1"," ","-">>,
      <<"-"," ","0","0","1","-","0","0","3"," ","-">>,
      <<"5"," ","-"," ","0","1">>,
      <<"1","x","0","2">>,
      <<"[",ArabicThree,ArabicThree,"]">> }

\* year markers in the three forms, at and beyond the limits
YearTokens ==
    { <<"(","1","9","9","9",")">>,
      <<"[","2","0","0","6","]">>,
      <<"2","1","0","0">>,
      <<"(","1","8","9","9",")">>,
      <<"[","2","1","0","1","]">>,
      <<"2","1","0","1">> }

\* source markers
SourceTokens ==
    { <<"[","B","l","u","r","a","y","-","1","0","8","0","p"," ","R","e","m","u","x","]">>,
      <<"[","W","E","B","D","L","-","1","0","8","0","p","]">>,
      <<"B","l","u","R","a","y">>,
      <<"[","R","e","m","u","x","]">> }

\* flag markers
FlagTokens ==
    { <<"R","E","A","D","N","F","O">>,
      <<"P","R","O","P","E","R">>,
      <<"R","E","A","D",".","N","F","O">> }

\* a title word
FillerTokens ==
    { <<"S","h","o","w">> }

Tokens == EpisodeTokens \cup YearTokens \cup SourceTokens \cup FlagTokens \cup FillerTokens

\* what stands between two markers
Seps == { <<>>, <<" ">> }

\* the empty string, whitespace only, unbalanced brackets
DegenerateNames == { <<>>, <<" ">>, <<"[">>, <<"]","[">>, <<"-">> }

RECURSIVE Joined(_, _)
Joined(tokens, n) ==
    IF n <= 1 THEN tokens
    ELSE LET shorter == Joined(tokens, n - 1)
         IN  shorter \cup {a \o sep \o b : a \in shorter, sep \in Seps, b \in tokens}

Names == DegenerateNames \cup Joined(Tokens, MaxTokens)

\* markers of the identifiers, the edition and the disc: braced, bracketed,
\* bare, with and without "id", with digits that are not ASCII
MarkerTokens ==
    << <<"{","t","m","d","b","-","1","2","}">>,
       <<"[","t","m","d","b","i","d","-","3","4","]">>,
       <<"[","t","v","d","b","-","5","]">>,
       <<"{","i","m","d","b","-","t","t","7","}">>,
       <<"[","i","m","d","b","-","7","]">>,
       <<"{","e","d","i","t","i","o","n","-","F","i","n","a","l"," ","C","u","t","}">>,
       <<"[","U","-","E","d","i","t","i","o","n","]">>,
       <<"C","D","1">>,
       <<"[","D","i","s","c"," ","2","]">>,
       <<"D","i","s","c"," ","3","0","0">>,
       <<"{","t","m","d","b","-",ArabicThree,"}">> >>

\* a film with no marker, one or two
MarkerNames ==
    {MarkerTokens[i] : i \in DOMAIN MarkerTokens}
    \cup {<<"F","i","l","m"," ">> \o MarkerTokens[i] : i \in DOMAIN MarkerTokens}
    \cup {<<"F","i","l","m"," ">> \o MarkerTokens[p[1]] \o <<" ">> \o MarkerTokens[p[2]] :
              p \in {q \in (DOMAIN MarkerTokens) \X (DOMAIN MarkerTokens) : q[1] /= q[2]}}

\* what follows the episode marker of a dotted name: metadata and title words
TailTokens == { <<"7","2","0","p">>,
                <<"H","D","T","V">>,
                <<"P","i","l","o","t">>,
                <<"G","e","r","m","a","n">>,
                <<"x","2","6","4">> }

\* no word, one, or two different ones, each after a dot
TailLists ==
    { <<>> } \cup {<<".">> \o a : a \in TailTokens}
             \cup {<<".">> \o p[1] \o <<".">> \o p[2] :
                      p \in {q \in TailTokens \X TailTokens : q[1] /= q[2]}}

\* scene names with dots: a title, an episode marker, words, a group or none
DottedNames ==
    {<<"S","h","o","w",".">> \o marker \o tail \o group :
        marker \in { <<"S","0","1","E","0","2">>,
                    <<"E","7","8","0">>,
                    <<"S","0","1","E","0","1","E","0","2">> },
        tail \in TailLists,
        group \in { <<>>, <<"-","G","R","P">> }}

\* names in the other forms: dashes, brackets, dates, anime, films, files
SpecialNames ==
    { <<"S","h","o","w"," ","-"," ","S","0","1","E","0","2"," ","-"," ","P","i","l","o","t">>,
      <<"S","h","o","w"," ","(","2","0","1","0",")"," ","{","t","v","d","b","-","5","}"," ","-"," ","S","0","1","E","0","2"," ","-"," ","P","i","l","o","t"," ","[","W","E","B","D","L","-","1","0","8","0","p","]","-","G","R","P">>,
      <<"-"," ","S","0","1","E","0","2"," ","-"," ","P","i","l","o","t">>,
      <<"S","h","o","w"," ","-"," ","s","0","1","e","0","2"," ","-"," ","P","i","l","o","t">>,
      <<"S","h","o","w"," ","-"," ","2","0","1","3","-","1","0","-","3","0"," ","-"," ","P","i","l","o","t">>,
      <<"-"," ","2","0","1","3","-","1","0","-","3","0"," ","-"," ","P","i","l","o","t">>,
      <<"S","h","o","w"," ","-"," ","0","0","1"," ","-"," ","P","i","l","o","t">>,
      <<"S","h","o","w"," ","-"," ","0","0","1","-","0","0","3"," ","-"," ","P","i","l","o","t"," ","[","7","2","0","p","]">>,
      <<"S","h","o","w"," ","5"," ","-"," ","0","1">>,
      <<"S","h","o","w"," ","(","C","A",")"," ","5"," ","-"," ","0","1">>,
      <<"[","G","R","P","]"," ","S","h","o","w"," ","N","a","m","e"," ","-"," ","0","5"," ","[","7","2","0","p","]">>,
      <<"[","G","R","P","]","[","S","h","o","w"," ","N","a","m","e","]","[","0","1","]","[","A","V","C","]">>,
      <<"[","A","V","C","]"," ","S","h","o","w">>,
      <<"S","h","o","w"," ","[","x","2","6","4","]">>,
      <<"S","h","o","w"," ","[","G","R","P","]">>,
      <<"S","h","o","w","-","x","2","6","4">>,
      <<"S","h","o","w",".","B","l","u","R","a","y">>,
      <<"S","h","o","w",".","N","a","m","e">>,
      <<"S","h","o","w",".","7","2","0","p","-","G","R","P">>,
      <<"S","h","o","w",".","2","0","2","4",".","S","0","1","E","0","2",".","P","i","l","o","t",".","G","e","r","m","a","n",".","D","L",".","7","2","0","p">>,
      <<"S","h","o","w",".","S","0","1","E","0","2",".","1","0","8","0","p",".","N","F",".","W","E","B","-","D","L",".","x","2","6","4","-","G","R","P">>,
      <<"S","h","o","w",".","S","0","1","E","0","2",".",".",".","G","e","r","m","a","n">>,
      <<"S","h","o","w"," ","S","0","1","E","0","2"," ","H","D","T","V">>,
      <<"S","h","o","w",".","S","0","1","E","0","2",".","P","i","l","o","t",".","R","E","A","D",".","N","F","O">>,
      <<"S","0","1","E","0","5"," ","-"," ","0","0","1","-","0","0","3"," ","-">>,
      <<"E","0","1","E","0","2"," ","[","1","1","9","]">>,
      <<"F","i","l","m",".","1","9","9","9",".","7","2","0","p",".","B","l","u","R","a","y",".","x","2","6","4","-","G","R","P">>,
      <<"F","i","l","m"," ","(","1","9","9","9",")"," ","[","i","m","d","b","i","d","-","t","t","7","]","[","B","l","u","r","a","y","-","1","0","8","0","p","]","[","A","A","C"," ","2",".","0","]","-","G","R","P">>,
      <<"F","i","l","m",".","m","k","v">>,
      <<"S","h","o","w",".","S","0","1","E","0","2",".","m","k","v">>,
      <<"F","i","l","m",".","1","9","9","9">>,
      <<"E","1","0","0","0">>,
      <<"S","h","o","w"," ","E","1","0","0","0">>,
      <<"F","i","l","m",".","B","l","u","R","a","y",".","R","e","m","u","x">>,
      <<"F","i","l","m",".","R","e","m","u","x",".","B","l","u","R","a","y">>,
      <<"F","i","l","m"," ","(","1","8","9","9",")"," ","(","1","9","9","9",")"," ","[","2","0","0","6","]">>,
      <<"F","i","l","m"," ","2","0","0","6"," ","(","1","8","9","9",")"," ","(","1","9","9","9",")">>,
      <<"S","2","5"," ","-"," ","0","2">>,
      <<"S","h","o","w"," ","S","5"," ","-"," ","0","2">>,
      <<"S","h","o","w"," ","5"," ","-"," ","2","0","1">>,
      <<"S","h","o","w"," ","2","1"," ","-"," ","0","1">>,
      <<"S","h","o","w"," ","0"," ","-"," ","0","1">>,
      <<"S","h","o","w"," ","2","0"," ","-"," ","2","0","0">>,
      <<"F","i","l","m"," ","7","2","0","p"," ","[","W","E","B","D","L","-","1","0","8","0","p","]">>,
      <<"F","i","l","m"," ","(","7","2","0","p",")"," ","[","W","E","B","D","L","-","1","0","8","0","p","]">>,
      <<"F","i","l","m"," ","(","1","0","8","0","p",")"," ","7","2","0","p">>,
      <<"F","i","l","m"," ","[","7","2","0","p","]"," ","4","8","0","i">>,
      <<"F","i","l","m"," ","x","2","6","4"," ","[","A","V","C","]">>,
      <<"F","i","l","m"," ","H",".","2","6","4"," ","[","h","2","6","5","]">>,
      <<"F","i","l","m",".","x","2","6","4",".","H",".","2","6","5">>,
      <<"[","A","V","C","]"," ","S","h","o","w","-","X","Y","Z"," ","[","G","R","P","]">>,
      <<"S","h","o","w","-","x","2","6","4"," ","[","G","R","P","]">>,
      <<"[","G","R","P","]"," ","S","h","o","w",".","N","a","m","e","-","X","Y","Z">>,
      <<"S","h","o","w",".","N","a","m","e"," ","[","x","2","6","4","]">>,
      <<"F","i","l","m"," ","H",".","2","6","4"," ","[","H",".","2","6","5","]">>,
      <<"F","i","l","m"," ","x","2","6","4"," ","[","M","P","E","G","2","]">> }

SceneNames == DottedNames \cup SpecialNames

\* directory names with a pair of brackets that holds nothing
EmptyBracketNames ==
    { <<"S","h","o","w"," ","(",")"," ","N","a","m","e">>, <<"S","h","o","w"," ","[","]"," ","N","a","m","e">>, <<"S","h","o","w"," ","("," ",")"," ","(","2","0","1","0",")">> }

\* directory names: years and title words, and the names with the markers of
\* the other fields
DirectoryNames ==
    DegenerateNames \cup Joined(YearTokens \cup FillerTokens, MaxTokens)
    \cup MarkerNames \cup SpecialNames \cup EmptyBracketNames

\* season directory names
SeasonNames ==
    { <<"S","e","a","s","o","n"," ","1">>,
      <<"s","e","a","s","o","n"," "," ","0","2">>,
      <<"S","e","a","s","o","n"," ","0">>,
      <<"S","e","a","s","o","n">>,
      <<"S","e","a","s","o","n"," ",ArabicThree>>,
      <<"S","e","a","s","o","n","s"," ","1","2","x">> }

\* directory segments of a path
DirSegments ==
    { <<"t","v">>,
      <<"S","h","o","w"," ","(","2","0","1","0",")">>,
      <<"S","e","a","s","o","n"," ","1">>,
      <<".",".">>,
      <<".">>,
      <<>> }

\* file names of a path
FileNames ==
    { <<"S","0","1","E","0","2",".","m","k","v">>,
      <<"E","0","1","E","0","2",".","m","k","v">>,
      <<"F","i","l","m",".","1","9","9","9",".","m","k","v">>,
      <<"-"," ","0","0","1","-","0","0","3"," ","-",".","m","k","v">>,
      <<".","m","k","v">>,
      <<".",".">>,
      <<>> }

RECURSIVE DirLists(_)
DirLists(n) ==
    IF n = 0 THEN { <<>> }
    ELSE LET shorter == DirLists(n - 1)
         IN  shorter \cup {Append(ds, d) : ds \in {l \in shorter : Len(l) = n - 1}, d \in DirSegments}

RECURSIVE JoinPath(_, _)
JoinPath(segs, sep) ==
    IF Len(segs) = 0 THEN <<>>
    ELSE IF Len(segs) = 1 THEN segs[1]
    ELSE segs[1] \o <<sep>> \o JoinPath(Tail(segs), sep)

Paths ==
    {root \o JoinPath(Append(ds, f), sep) :
        root \in { <<>>, <<"/">> }, ds \in DirLists(MaxDirs), f \in FileNames, sep \in {"/", "\\"}}

(***************************************************************************)
(* The state: one ReleaseParser shared by the calling threads, the frame   *)
(* of each thread's call, and the parse calls that have returned.          *)
(***************************************************************************)
VARIABLES
    self_type,   \* ReleaseParser.release_type of the shared parser (lines 5-7)
    frames,      \* per thread: the call in progress, its locals and its result
    returned     \* the (hint, release_name, record) of every finished parse

vars == <<self_type, frames, returned>>

Threads == {"t1", "t2"}
Hints == {"tv", "movie"}

IdleFrame ==
    [op |-> "idle", pc |-> "idle", hint |-> "", arg |-> <<>>,
     release_name |-> <<>>, parsed |-> DefaultRelease(<<>>, ""), ret |-> None]

\* a call of operation op ("parse", "parse_path", "parse_series_directory",
\* "parse_movie_directory", "parse_season_directory") on the shared parser
Called(op, hint, arg) ==
    [IdleFrame EXCEPT !.op = op, !.pc = op, !.hint = hint, !.arg = arg,
                      !.release_name = IF op = "parse" THEN arg ELSE <<>>]

\* the calls and their arguments
Calls ==
    ([op : {"parse"}, arg : Names \cup MarkerNames \cup SceneNames])
    \cup ([op : {"parse_path"}, arg : Paths])
    \cup ([op : {"parse_series_directory", "parse_movie_directory"}, arg : DirectoryNames])
    \cup ([op : {"parse_season_directory"}, arg : SeasonNames \cup DegenerateNames])

\* ReleaseParser::new (lines 10-14), then one call by thread t1
Init ==
    /\ self_type \in Hints
    /\ \E c \in Calls :
          frames = [t \in Threads |->
                       IF t = "t1" THEN Called(c.op, self_type, c.arg) ELSE IdleFrame]
    /\ returned = {}

Step(t, frame) == frames' = [frames EXCEPT ![t] = frame]

\* line 312: parse returns the record parsed, to its caller or to parse_path
Finished(frame, parsed) ==
    IF frame.op = "parse"
    THEN [frame EXCEPT !.parsed = parsed, !.ret = Some(parsed), !.pc = "done"]
    ELSE [frame EXCEPT !.parsed = parsed, !.pc = "directories"]

\* lines 161-171
ParseStart(t) ==
    /\ frames[t].pc = "parse"
    /\ Step(t, [frames[t] EXCEPT
                   !.parsed = WithGroup(DefaultRelease(frames[t].release_name, self_type),
                                        frames[t].release_name),
                   !.pc = "season_episode"])
    /\ UNCHANGED <<self_type, returned>>

\* lines 173-200
ParseSeasonEpisode(t) ==
    /\ frames[t].pc = "season_episode"
    /\ Step(t, [frames[t] EXCEPT
                   !.parsed = WithSeasonEpisode(@, self_type, frames[t].release_name),
                   !.pc = "fields"])
    /\ UNCHANGED <<self_type, returned>>

\* lines 202-252
ParseFields(t) ==
    /\ frames[t].pc = "fields"
    /\ Step(t, [frames[t] EXCEPT
                   !.parsed = WithFields(@, frames[t].release_name),
                   !.pc = "episode_number"])
    /\ UNCHANGED <<self_type, returned>>

\* lines 254-289 with `.unwrap()` in place of `if let Ok(ep)` at line 281: a
\* number that does not parse panics, and the call never returns
ParseEpisodeNumber_Unwrap(t) ==
    LET found == extract_episode_number(frames[t].release_name) IN
    /\ frames[t].pc = "episode_number"
    /\ IF IsSome(found) /\ ~Contains(found[1], <<"-">>) /\ ParseInt(found[1]) < 0
       THEN Step(t, [frames[t] EXCEPT !.pc = "panicked"])
       ELSE Step(t, [frames[t] EXCEPT
                        !.parsed = WithEpisodeNumber(@, frames[t].release_name),
                        !.pc = "finish"])
    /\ UNCHANGED <<self_type, returned>>

\* lines 254-289
ParseEpisodeNumber(t) ==
    /\ frames[t].pc = "episode_number"
    /\ Step(t, [frames[t] EXCEPT
                   !.parsed = WithEpisodeNumber(@, frames[t].release_name),
                   !.pc = "finish"])
    /\ UNCHANGED <<self_type, returned>>

\* lines 291-313: the record is returned, to the caller or to parse_path
ParseFinish(t) ==
    /\ frames[t].pc = "finish"
    /\ Step(t, Finished(frames[t], WithRest(frames[t].parsed, self_type, frames[t].release_name)))
    /\ returned' = returned \cup {[hint         |-> frames[t].hint,
                                   release_name |-> frames[t].release_name,
                                   parsed       |-> frames'[t].parsed]}
    /\ UNCHANGED self_type

\* lines 110-122: the file stem, or None
PathStart(t) ==
    LET stem == file_stem(PathOf(Normalize(frames[t].arg))) IN
    /\ frames[t].pc = "parse_path"
    /\ IF IsSome(stem)
       THEN Step(t, [frames[t] EXCEPT !.release_name = stem[1], !.pc = "parse"])
       ELSE Step(t, [frames[t] EXCEPT !.ret = None, !.pc = "done"])
    /\ UNCHANGED <<self_type, returned>>

\* lines 124-159 with the inferred type stored in the shared parser
\* (`self.release_type = release_type`) instead of a parser of its own
PathDirectories_SharedParser(t) ==
    /\ frames[t].pc = "directories"
    /\ self_type' = InferredType(frames[t].parsed)
    /\ Step(t, [frames[t] EXCEPT
                   !.ret = PathInfoOf(frames[t].arg, frames[t].parsed),
                   !.pc = "done"])
    /\ UNCHANGED returned

\* lines 124-159: the directories, with a parser of their own
PathDirectories(t) ==
    /\ frames[t].pc = "directories"
    /\ Step(t, [frames[t] EXCEPT
                   !.ret = PathInfoOf(frames[t].arg, frames[t].parsed),
                   !.pc = "done"])
    /\ UNCHANGED <<self_type, returned>>

\* lines 17-57
SeriesDirectory(t) ==
    /\ frames[t].pc = "parse_series_directory"
    /\ Step(t, [frames[t] EXCEPT
                   !.ret = Some(parse_series_directory(frames[t].arg)), !.pc = "done"])
    /\ UNCHANGED <<self_type, returned>>

\* lines 60-94
MovieDirectory(t) ==
    /\ frames[t].pc = "parse_movie_directory"
    /\ Step(t, [frames[t] EXCEPT
                   !.ret = Some(parse_movie_directory(frames[t].arg)), !.pc = "done"])
    /\ UNCHANGED <<self_type, returned>>

\* lines 97-107
SeasonDirectory(t) ==
    /\ frames[t].pc = "parse_season_directory"
    /\ Step(t, [frames[t] EXCEPT
                   !.ret = parse_season_directory(frames[t].arg), !.pc = "done"])
    /\ UNCHANGED <<self_type, returned>>

Run(t) ==
    \/ ParseStart(t)
    \/ ParseSeasonEpisode(t)
    \/ ParseFields(t)
    \/ ParseEpisodeNumber(t)
    \/ ParseFinish(t)
    \/ PathStart(t)
    \/ PathDirectories(t)
    \/ SeriesDirectory(t)
    \/ MovieDirectory(t)
    \/ SeasonDirectory(t)

Next == \E t \in Threads : Run(t)

Spec == Init /\ [][Next]_vars

(***************************************************************************)
(* Repeated calls from two threads on one parser.  A thread that is idle   *)
(* calls an operation; a call that is done returns and the thread is idle  *)
(* again.                                                                  *)
(***************************************************************************)
\* the calls of this specification: one at least of each operation
RepeatedCalls ==
    ([op : {"parse"}, arg : {<<"S","0","2","E","0","5">>, <<"F","i","l","m">>}])
    \cup ([op : {"parse_path"}, arg : {<<"S","h","o","w","/","F","i","l","m",".","m","k","v">>}])
    \cup ([op : {"parse_series_directory", "parse_movie_directory"}, arg : {<<"S","h","o","w"," ","(","1","9","9","9",")">>}])
    \cup ([op : {"parse_season_directory"}, arg : {<<"S","e","a","s","o","n"," ","1">>}])

InitCalls ==
    /\ self_type \in Hints
    /\ frames = [t \in Threads |-> IdleFrame]
    /\ returned = {}

Call(t) ==
    /\ frames[t].pc = "idle"
    /\ \E c \in RepeatedCalls : Step(t, Called(c.op, self_type, c.arg))
    /\ UNCHANGED <<self_type, returned>>

Return(t) ==
    /\ frames[t].pc = "done"
    /\ Step(t, IdleFrame)
    /\ UNCHANGED <<self_type, returned>>

NextCalls == \E t \in Threads : Call(t) \/ Run(t) \/ Return(t)

SpecCalls == InitCalls /\ [][NextCalls]_vars

(***************************************************************************)
(* Properties                                                              *)
(***************************************************************************)
\* a call of op by thread t has returned
Done(t, op) == frames[t].op = op /\ frames[t].pc = "done"

\* markers that carry no season or episode number
NeutralTokens ==
    ((YearTokens \ { <<"[","2","1","0","1","]">> }) \cup SourceTokens \cup FlagTokens \cup FillerTokens)

\* the marker alone, or with one neutral marker before or after it
Around(marker) ==
    {marker} \cup {n \o <<" ">> \o marker : n \in NeutralTokens}
             \cup {marker \o <<" ">> \o n : n \in NeutralTokens}

EpisodeConsistent(parsed) ==
    /\ IsSome(parsed.episode) <=> Len(parsed.episodes) = 1
    /\ IsSome(parsed.episode) => parsed.episodes = <<parsed.episode[1]>>

\* C1: in every record parse builds or returns, for either hint, episode is
\* Some iff episodes has exactly one element, and then episodes = [episode];
\* this holds after the season/episode step and after the episode-number step.
C1_EpisodeIffSingle ==
    /\ \A t \in Threads : EpisodeConsistent(frames[t].parsed)
    /\ \A r \in returned : EpisodeConsistent(r.parsed)

\* a tv call returned where the cascade found several episodes and the
\* episode-number step then set a single one
C1_Witness ==
    \E t \in Threads :
        /\ Done(t, "parse") /\ frames[t].hint = "tv"
        /\ IsSome(extract_season_episode(frames[t].arg))
        /\ Len(extract_season_episode(frames[t].arg)[1].episodes) > 1
        /\ IsSome(frames[t].parsed.episode)
        /\ IsSome(frames[t].ret)

\* the range forms S<s>E<a>-E<b> of the inputs, with s >= 1 and a <= b
RangeForms ==
    { [name |-> <<"S","0","1","E","0","1","-","E","0","3">>, season |-> 1, first |-> 1, last |-> 3],
      [name |-> <<"S","0","1","E","0","0","1","-","E","0","0","3">>, season |-> 1, first |-> 1, last |-> 3] }

\* C2: a tv input with the range form S<s>E<a>-E<b> (s >= 1, a <= b, a and b of
\* 1-3 digits) and no episode-number marker is parsed to season = Some(s),
\* episodes = a, a+1, ..., b, and episode = None when a < b, Some(a) when a = b.
C2_RangeExpanded ==
    \A t \in Threads : \A f \in RangeForms :
        (Done(t, "parse") /\ frames[t].hint = "tv" /\ frames[t].arg \in Around(f.name))
        => /\ frames[t].ret[1].season = Some(f.season)
           /\ frames[t].ret[1].episodes = [i \in 1..(f.last - f.first + 1) |-> f.first + i - 1]
           /\ frames[t].ret[1].episode = IF f.first = f.last THEN Some(f.first) ELSE None

\* the episode-only forms of the inputs and the episodes they name
EpisodeOnlyForms ==
    { [name |-> <<"E","0","1","E","0","2">>, episodes |-> <<1, 2>>],
      [name |-> <<"E","7","8","0">>, episodes |-> <<780>>],
      [name |-> <<"E","p","i","s","o","d","e"," ","6","1">>, episodes |-> <<61>>],
      [name |-> <<"[","1","1","9","]">>, episodes |-> <<119>>] }

\* C3: no record of parse has season = Some(0); a tv input whose only episode
\* marker is an episode-only form (E01E02, E780, "Episode N", "[N]") is parsed
\* to season = None with episode/episodes carrying the number(s).
C3_SeasonNeverZero ==
    /\ \A t \in Threads : frames[t].parsed.season /= Some(0)
    /\ \A r \in returned : r.parsed.season /= Some(0)
    /\ \A t \in Threads : \A f \in EpisodeOnlyForms :
          (Done(t, "parse") /\ frames[t].hint = "tv" /\ frames[t].arg \in Around(f.name))
          => /\ frames[t].ret[1].season = None
             /\ frames[t].ret[1].episodes = f.episodes
             /\ (Len(f.episodes) = 1 => frames[t].ret[1].episode = Some(f.episodes[1]))

\* a tv call returned for a name where the cascade reported season 0
C3_Witness ==
    \E t \in Threads :
        /\ Done(t, "parse") /\ frames[t].hint = "tv"
        /\ IsSome(extract_season_episode(frames[t].arg))
        /\ extract_season_episode(frames[t].arg)[1].season = 0
        /\ frames[t].ret[1].season = None
        /\ frames[t].ret[1].episodes /= <<>>

\* digits of an episode number in the range form, \d{1,3}
EpisodeDigits == 3

YearOk(year) == ~IsSome(year) \/ (year[1] >= 1900 /\ year[1] <= 2100)

\* C4: the year of every record of parse, parse_series_directory and
\* parse_movie_directory is None or within 1900..2100, whichever form supplied
\* it; 2100 is accepted, 1899 and 2101 are rejected.
C4_YearBounds ==
    \A t \in Threads :
        /\ YearOk(frames[t].parsed.year)
        /\ (Done(t, "parse_series_directory") \/ Done(t, "parse_movie_directory"))
              => YearOk(frames[t].ret[1].year)
        /\ (Done(t, "parse_path") /\ IsSome(frames[t].ret))
              => YearOk(frames[t].ret[1].directory[1].year)
        /\ (Done(t, "parse") \/ Done(t, "parse_series_directory") \/ Done(t, "parse_movie_directory"))
              => /\ frames[t].arg = <<"2","1","0","0">> => frames[t].ret[1].year = Some(2100)
                 /\ frames[t].arg \in { <<"(","1","8","9","9",")">>, <<"[","2","1","0","1","]">>, <<"2","1","0","1">> }
                       => frames[t].ret[1].year = None

\* a call returned the year 2100 for a name that also holds 2101
C4_Witness ==
    \E t \in Threads :
        /\ (Done(t, "parse") \/ Done(t, "parse_series_directory"))
        /\ Contains(frames[t].arg, <<"2","1","0","1">>)
        /\ frames[t].ret[1].year = Some(2100)

\* s holds a group [...] with "Remux" and a BluRay marker in it
HasRemuxBluRayBracket(s) ==
    \E i, j \in 1..Len(s) :
        /\ i < j /\ s[i] = "[" /\ s[j] = "]"
        /\ \A k \in (i + 1)..(j - 1) : s[k] /= "]"
        /\ Contains(SubSeq(s, i + 1, j - 1), <<"R","e","m","u","x">>)
        /\ Contains(LowerStr(SubSeq(s, i + 1, j - 1)), <<"b","l","u","r","a","y">>)

PcRank(pc) ==
    CASE pc = "parse"          -> 1
      [] pc = "season_episode" -> 2
      [] pc = "fields"         -> 3
      [] pc = "episode_number" -> 4
      [] pc = "finish"         -> 5
      [] pc = "directories"    -> 6
      [] pc = "done"           -> 7
      [] OTHER                 -> 0

parse(release_type, release_name) ==
    WithRest(
        WithEpisodeNumber(
            WithFields(
                WithSeasonEpisode(WithGroup(DefaultRelease(release_name, release_type),
                                            release_name),
                                  release_type, release_name),
                release_name),
            release_name),
        release_type, release_name)

\* C7: parse is a function of (hint, name): every record returned, after any
\* calls and with another thread's calls interleaved, is the one the hint and
\* the name determine, and no step writes the parser the calls share.
C7_Pure ==
    /\ [](\A r \in returned : r.parsed = parse(r.hint, r.release_name))
    /\ [][self_type' = self_type]_vars

\* a parse returned while the other thread is inside parse_path's own parse
C7_Witness ==
    /\ Done("t1", "parse")
    /\ frames["t1"].hint = "tv"
    /\ IsSome(frames["t1"].ret[1].season)
    /\ frames["t2"].op = "parse_path"
    /\ frames["t2"].pc = "directories"
    /\ Cardinality(returned) >= 2

\* the name of the directory the file is in, if it has one
ParentName(file_path) ==
    LET path == PathOf(Normalize(file_path)) IN
    IF IsSome(parent(path)) THEN file_name(parent(path)[1]) ELSE None

\* the name of the directory above that one, if it has one
GrandparentName(file_path) ==
    LET path == PathOf(Normalize(file_path)) IN
    IF IsSome(parent(path)) /\ IsSome(parent(parent(path)[1]))
    THEN file_name(parent(parent(path)[1])[1])
    ELSE None

\* C8: parse_path returns None when the file has no named parent directory,
\* or the parent is a season directory without a named grandparent; a PathInfo
\* it returns has its directory present and its file record filled by parse.
C8_PathNoneOrComplete ==
    \A t \in Threads :
        Done(t, "parse_path") =>
            /\ ~IsSome(ParentName(frames[t].arg)) => frames[t].ret = None
            /\ (/\ IsSome(ParentName(frames[t].arg))
                /\ IsSome(parse_season_directory(ParentName(frames[t].arg)[1]))
                /\ ~IsSome(GrandparentName(frames[t].arg)))
                  => frames[t].ret = None
            /\ IsSome(frames[t].ret) =>
                  /\ IsSome(frames[t].ret[1].directory)
                  /\ frames[t].ret[1].file = parse(frames[t].hint, frames[t].release_name)
                  /\ frames[t].ret[1].file.release = frames[t].release_name
                  /\ frames[t].ret[1].full_path = frames[t].arg

\* parse_path returned None for a file in a season directory with nothing above
C8_Witness ==
    \E t \in Threads :
        /\ Done(t, "parse_path")
        /\ frames[t].ret = None
        /\ IsSome(file_stem(PathOf(Normalize(frames[t].arg))))
        /\ IsSome(ParentName(frames[t].arg))
        /\ IsSome(parse_season_directory(ParentName(frames[t].arg)[1]))

\* C9: parse_path parses the directory with the series parser exactly when the
\* file record has a season, an episode or a non-empty episodes, and with the
\* movie parser otherwise.
C9_SeriesIffEpisodeInfo ==
    \A t \in Threads :
        (Done(t, "parse_path") /\ IsSome(frames[t].ret)) =>
            LET file == frames[t].ret[1].file
                directory == frames[t].ret[1].directory[1]
            IN  /\ directory.release_type \in {"series", "movie"}
                /\ directory.release_type = "series"
                      <=> \/ IsSome(file.season)
                          \/ IsSome(file.episode)
                          \/ file.episodes /= <<>>

\* C10: the flags of every record of parse hold no flag name twice.
C10_FlagsDistinct ==
    \A t \in Threads :
        \A i, j \in 1..Len(frames[t].parsed.flags) :
            i /= j => frames[t].parsed.flags[i] /= frames[t].parsed.flags[j]

\* the metadata tags named for the group: the list of line 327 and DVDRip
ExcludedTags == MetadataTags \o << <<"D","V","D","R","i","p">> >>

\* C11: the group of every record parse returns is never, in any letter case,
\* one of the metadata tags of the exclusion list, whichever of the four tiers
\* supplied it.
C11_GroupNeverTag ==
    \A t \in Threads :
        Done(t, "parse") => ~AnyIgnoreCase(ExcludedTags, frames[t].ret[1].group)

\* the name holds no square bracket and no brace, so no bracketed or braced marker
NoMarker(release_name) ==
    \A n \in 1..Len(release_name) : release_name[n] \notin {"[", "]", "{", "}"}

\* C12: tmdb_id, tvdb_id, imdb_id, edition and disc of a record are None unless
\* the input holds a bracketed or braced marker of that field; an input with
\* no bracket and no brace at all yields None for all five.
C12_MarkersOnly ==
    \A t \in Threads :
        (/\ Done(t, "parse") \/ Done(t, "parse_series_directory") \/ Done(t, "parse_movie_directory")
         /\ NoMarker(frames[t].arg))
        => /\ frames[t].ret[1].tmdb_id = None
           /\ frames[t].ret[1].tvdb_id = None
           /\ frames[t].ret[1].imdb_id = None
           /\ frames[t].ret[1].edition = None
           /\ frames[t].ret[1].disc = None

\* C13: the record of parse has release equal to the input, character for
\* character, and release_type equal to the hint, from the first step of the
\* call to its return: no extractor alters either field.  This holds for the
\* parse of a file stem inside parse_path too.
C13_ReleaseKept ==
    /\ \A t \in Threads :
          (/\ frames[t].op \in {"parse", "parse_path"}
           /\ PcRank(frames[t].pc) >= 2
           /\ frames[t].op = "parse_path" => PcRank(frames[t].pc) <= 6)
          => /\ frames[t].parsed.release = frames[t].release_name
             /\ frames[t].parsed.release_type = frames[t].hint
    /\ \A t \in Threads :
          (Done(t, "parse_path") /\ IsSome(frames[t].ret))
          => /\ frames[t].ret[1].file.release = frames[t].release_name
             /\ frames[t].ret[1].file.release_type = frames[t].hint
    /\ \A t \in Threads :
          Done(t, "parse") => /\ frames[t].ret[1].release = frames[t].arg
                              /\ frames[t].ret[1].release_type = frames[t].hint
    /\ \A r \in returned : r.parsed.release = r.release_name /\ r.parsed.release_type = r.hint

\* a call with the hint "movie" returned for a name that holds a season/episode
\* marker, blanks and metadata: the title differs from the input, release does not
C13_Witness ==
    \E t \in Threads :
        /\ Done(t, "parse") /\ frames[t].hint = "movie"
        /\ IsSome(extract_season_episode(frames[t].arg))
        /\ frames[t].ret[1].title /= <<>>
        /\ frames[t].ret[1].title /= frames[t].arg
        /\ frames[t].ret[1].release = frames[t].arg
        /\ frames[t].ret[1].release_type = "movie"

\* the record has only release, release_type, title, year and the identifiers
\* filled: every other field is as in the default record
OnlyDirectoryFields(parsed, directory_name, release_type) ==
    parsed = [DefaultRelease(directory_name, release_type) EXCEPT
                 !.title   = parsed.title,
                 !.year    = parsed.year,
                 !.tmdb_id = parsed.tmdb_id,
                 !.tvdb_id = parsed.tvdb_id,
                 !.imdb_id = parsed.imdb_id]

\* C14: the record of parse_series_directory has release = the input and
\* release_type = "series", that of parse_movie_directory release_type =
\* "movie", whatever the parser's hint; beyond title, year and the identifiers
\* every field keeps its default value, for every input.
C14_DirectoryFields ==
    \A t \in Threads :
        /\ Done(t, "parse_series_directory")
              => OnlyDirectoryFields(frames[t].ret[1], frames[t].arg, "series")
        /\ Done(t, "parse_movie_directory")
              => OnlyDirectoryFields(frames[t].ret[1], frames[t].arg, "movie")

\* a parser with the hint "movie" parsed a series directory whose name holds a
\* year, an identifier, a season/episode marker, a source and a group
C14_Witness ==
    \E t \in Threads :
        /\ Done(t, "parse_series_directory") /\ frames[t].hint = "movie"
        /\ IsSome(extract_season_episode(frames[t].arg))
        /\ IsSome(extract_group(frames[t].arg))
        /\ extract_source(frames[t].arg) /= <<>>
        /\ IsSome(frames[t].ret[1].year)
        /\ IsSome(frames[t].ret[1].tvdb_id)
        /\ frames[t].ret[1].release_type = "series"

(***************************************************************************)
(* Calls of ParsedRelease::get: the receiver is a record parse returned,   *)
(* with its other string fields empty or filled, and the field name is     *)
(* one of the names get knows or another one.                              *)
(***************************************************************************)
\* the names matched at types.rs 38-63
FieldNames ==
    {"release", "title", "title_extra", "episode_title", "group", "year", "date",
     "season", "episode", "episodes", "disc", "source", "format", "resolution",
     "audio", "device", "os", "version", "tmdb_id", "tvdb_id", "imdb_id",
     "edition", "hdr", "streaming_provider", "type"}

\* names get does not know: fields it does not render, other spellings, ""
OtherNames == {"flags", "language", "release_type", "Title", "episodes ", "id", ""}

\* the names whose records are the receivers
ReceiverNames ==
    { <<>>,
      <<"S","0","1","E","0","1","-","E","0","3">>,
      <<"S","h","o","w"," ","(","2","0","1","0",")"," ","{","t","v","d","b","-","5","}"," ","-"," ","S","0","1","E","0","2"," ","-"," ","P","i","l","o","t"," ","[","W","E","B","D","L","-","1","0","8","0","p","]","-","G","R","P">>,
      <<"S","h","o","w"," ","-"," ","2","0","1","3","-","1","0","-","3","0"," ","-"," ","P","i","l","o","t">>,
      <<"F","i","l","m"," ","{","t","m","d","b","-","1","2","}"," ","{","e","d","i","t","i","o","n","-","F","i","n","a","l"," ","C","u","t","}">>,
      <<"F","i","l","m"," ","{","i","m","d","b","-","t","t","7","}"," ","D","i","s","c"," ","2","0","0">> }

FilledStrings ==
    [title_extra |-> <<"C","u","t">>, audio |-> <<"A","A","C">>,
     device |-> <<>>, os |-> <<>>, version |-> <<"v","2">>, hdr |-> <<"H","D","R">>]

Receivers ==
    {Whole(parse(hint, name), strings) :
        hint \in Hints, name \in ReceiverNames, strings \in {DefaultStrings, FilledStrings}}

InitGet ==
    /\ self_type \in Hints
    /\ \E self \in Receivers, field \in FieldNames \cup OtherNames :
          frames = [t \in Threads |->
                       IF t = "t1"
                       THEN [Called("get", self_type, field) EXCEPT !.parsed = self]
                       ELSE IdleFrame]
    /\ returned = {}

\* types.rs 37-72
Get(t) ==
    /\ frames[t].pc = "get"
    /\ Step(t, [frames[t] EXCEPT !.ret = get(frames[t].parsed, frames[t].arg), !.pc = "done"])
    /\ UNCHANGED <<self_type, returned>>

NextGet == \E t \in Threads : Get(t)

SpecGet == InitGet /\ [][NextGet]_vars

\* the field of the record that a name of get reads
FieldOf(field) == IF field = "type" THEN "release_type" ELSE field

\* a decimal rendering of n: digits that read as n, with no leading zero
Renders(str, n) == ParseInt(str) = n /\ (Len(str) > 1 => str[1] /= "0")

\* C15: get returns None for a name outside its set of field names; for a plain
\* string field it returns Some of the field, even when empty; for an optional
\* field it is Some exactly when the field is, with the string itself or the
\* decimal digits of the number; for "episodes" it is None when the list is
\* empty and otherwise the numbers joined by commas in list order.
C15_GetRenders ==
    \A t \in Threads :
        Done(t, "get") =>
            LET self  == frames[t].parsed
                field == frames[t].arg
                ret   == frames[t].ret
            IN  /\ field \notin FieldNames => ret = None
                /\ field \in {"release", "title", "title_extra", "episode_title", "group",
                              "source", "format", "resolution", "audio", "device", "os",
                              "version", "hdr", "streaming_provider", "type"}
                      => ret = Some(self[FieldOf(field)])
                /\ field \in {"date", "tmdb_id", "tvdb_id", "imdb_id", "edition"}
                      => ret = self[field]
                /\ field \in {"year", "season", "episode", "disc"}
                      => /\ IsSome(ret) <=> IsSome(self[field])
                         /\ IsSome(ret) => Renders(ret[1], self[field][1])
                /\ field = "episodes"
                      => /\ IsSome(ret) <=> self.episodes /= <<>>
                         /\ IsSome(ret)
                               => /\ Len(Split(ret[1], ",")) = Len(self.episodes)
                                  /\ \A i \in 1..Len(self.episodes) :
                                        Renders(Split(ret[1], ",")[i], self.episodes[i])

\* get("episodes") returned "1,2,3" for a record with these three episodes
C15_Witness ==
    \E t \in Threads :
        /\ Done(t, "get") /\ frames[t].arg = "episodes"
        /\ frames[t].parsed.episodes = <<1, 2, 3>>
        /\ frames[t].ret = Some(<<"1",",","2",",","3">>)

\* C16: the episode-only pair tier E<a>E<b> applies only to inputs without a
\* season: a tv input in which E<a>E<b> directly follows a season token
\* (S01E01E02, season 1) keeps its season, so parse returns season = Some(1).
C16_SeasonKept ==
    \A t \in Threads :
        (/\ Done(t, "parse") /\ frames[t].hint = "tv"
         /\ Contains(frames[t].arg, <<"S","0","1","E","0","1","E","0","2">>))
        => frames[t].ret[1].season = Some(1)

\* C17: when the season/episode cascade or the "Episode N" fallback has found
\* episodes (episodes is non-empty before the episode-number step), the
\* episode-number step ("- NNN -", "- NNN-MMM -", "[N]") leaves episode and
\* episodes as the cascade set them.
C17_NoDoubleCount ==
    [][\A t \in Threads :
          (frames[t].pc = "episode_number" /\ frames[t].parsed.episodes /= <<>>)
          => /\ frames'[t].parsed.episode = frames[t].parsed.episode
             /\ frames'[t].parsed.episodes = frames[t].parsed.episodes]_vars

\* the dotted names in which SxxEyy is followed by metadata only: a resolution,
\* a source, a language, a codec (not the word "Pilot"), and a group or none
MetadataOnlyNames ==
    {<<"S","h","o","w",".","S","0","1","E","0","2">> \o tail \o group :
        tail \in {l \in TailLists : ~Contains(l, <<"P","i","l","o","t">>)},
        group \in { <<>>, <<"-","G","R","P">> }}

\* C18: when no structural episode-title pattern matches, episode_title is the
\* empty string; in particular a tv input whose SxxEyy token is followed only
\* by metadata tokens (resolution, source, codec, language, group) has an
\* empty episode_title.
C18_NoTitleFromMetadata ==
    \A t \in Threads :
        (Done(t, "parse") /\ frames[t].hint = "tv" /\ frames[t].arg \in MetadataOnlyNames)
        => frames[t].ret[1].episode_title = <<>>

\* C19: the season and the episode do not come from a date: a tv input whose
\* only numbering is a date marker "- YYYY-MM-DD -" gets date = Some of that
\* date, and season and episode stay None (the bare "N - M" tier does not fire
\* on the digits of the date).
C19_DateNotSeason ==
    \A t \in Threads :
        (/\ Done(t, "parse") /\ frames[t].hint = "tv"
         /\ frames[t].arg \in { <<"S","h","o","w"," ","-"," ","2","0","1","3","-","1","0","-","3","0"," ","-"," ","P","i","l","o","t">>,
                                <<"-"," ","2","0","1","3","-","1","0","-","3","0"," ","-"," ","P","i","l","o","t">> })
        => /\ frames[t].ret[1].date = Some(<<"2","0","1","3","-","1","0","-","3","0">>)
           /\ frames[t].ret[1].season = None
           /\ frames[t].ret[1].episode = None

\* what each tier of the cascade finds in the name, in the order E<a>E<b>,
\* standalone E+3 digits, range, S..E.., NxM, "Season N Episode M",
\* "S<n> - <m>", bare "<n> - <m>"; None for a tier that does not match or whose
\* guard or bound rejects its match
TiersInOrder(release_name) ==
    << TierEpisodePair(release_name),
       TierEpisodeOnly(release_name),
       TierRange(release_name),
       SinglePattern(ReSxxExx, release_name),
       SinglePattern(ReNxM, release_name),
       SinglePattern(ReSeasonEpisodeWords, release_name),
       AnimePattern(ReAnimeS, release_name),
       AnimePattern(ReAnimeBare, release_name) >>

\* the record carries what the tier found
CarriesTier(parsed, found) ==
    /\ parsed.season = IF found.season > 0 THEN Some(found.season) ELSE None
    /\ parsed.episodes = found.episodes
    /\ parsed.episode = IF Len(found.episodes) = 1 THEN Some(found.episode) ELSE None

\* the record carries what the first tier of the list that matched found
CarriesFirst(parsed, tiers) ==
    \A n \in DOMAIN tiers :
        (IsSome(tiers[n]) /\ \A m \in 1..(n - 1) : ~IsSome(tiers[m]))
        => CarriesTier(parsed, tiers[n][1])

\* C20: the cascade is evaluated in the fixed order of its eight tiers and its
\* result is that of the first tier in this order that matches; no later tier
\* is consulted or alters it.  Stated on the record of a tv call right after
\* the season/episode step: it carries the result of the first matching tier.
C20_FirstTierWins ==
    \A t \in Threads :
        (/\ frames[t].op \in {"parse", "parse_path"}
         /\ frames[t].pc = "fields" /\ frames[t].hint = "tv")
        => CarriesFirst(frames[t].parsed, TiersInOrder(frames[t].release_name))

\* the season/episode step has run on a name in which the standalone E003 tier
\* and the range tier both match, with different results: the record has the
\* episode of the earlier tier
C20_Witness ==
    \E t \in Threads :
        /\ frames[t].op = "parse" /\ frames[t].pc = "fields" /\ frames[t].hint = "tv"
        /\ IsSome(TierEpisodeOnly(frames[t].release_name))
        /\ IsSome(TierRange(frames[t].release_name))
        /\ TierRange(frames[t].release_name) /= TierEpisodeOnly(frames[t].release_name)
        /\ frames[t].parsed.episodes = TierEpisodeOnly(frames[t].release_name)[1].episodes

\* tv names whose only numbering is a standalone E and three or more digits,
\* with no season token before it, and the number each holds
StandaloneEpisodeNames ==
    { [name |-> <<"E","7","8","0">>, number |-> 780],
      [name |-> <<"S","h","o","w"," ","E","7","8","0">>, number |-> 780],
      [name |-> <<"E","1","0","0","0">>, number |-> 1000],
      [name |-> <<"S","h","o","w"," ","E","1","0","0","0">>, number |-> 1000] }

\* C21: for a tv input containing a standalone token E followed by three or
\* more digits (E780, E1000) that is not preceded by a season token, parse
\* returns season = None, episode = Some(that number) and
\* episodes = [that number].
C21_StandaloneEpisode ==
    \A t \in Threads : \A s \in StandaloneEpisodeNames :
        (Done(t, "parse") /\ frames[t].hint = "tv" /\ frames[t].arg = s.name)
        => /\ frames[t].ret[1].season = None
           /\ frames[t].ret[1].episode = Some(s.number)
           /\ frames[t].ret[1].episodes = <<s.number>>

\* C22: parse runs every field extractor whatever the release-type hint: for
\* any input, the season, episode and episodes returned with the hint "movie"
\* equal those returned with the hint "tv".
C22_HintOnlyLabels ==
    \A t \in Threads :
        (Done(t, "parse") /\ frames[t].hint = "movie")
        => /\ frames[t].ret[1].season = parse("tv", frames[t].arg).season
           /\ frames[t].ret[1].episode = parse("tv", frames[t].arg).episode
           /\ frames[t].ret[1].episodes = parse("tv", frames[t].arg).episodes

\* the name holds the token in any letter case
HoldsToken(release_name, token) == Contains(LowerStr(release_name), LowerStr(token))

\* C23: in source extraction Remux is checked before BluRay for every input,
\* bracketed or not: whenever the input contains both a Remux token and a
\* BluRay token (in any letter case, anywhere in the string), source is
\* "Remux" and never "BluRay".
C23_RemuxBeforeBluRay ==
    \A t \in Threads :
        (/\ Done(t, "parse")
         /\ HoldsToken(frames[t].arg, <<"R","e","m","u","x">>)
         /\ HoldsToken(frames[t].arg, <<"B","l","u","R","a","y">>))
        => frames[t].ret[1].source = <<"R","e","m","u","x">>

\* the name holds the 4-digit year in the form that opens with `open` and
\* closes with `close`
HoldsYear(release_name, open, year, close) ==
    Contains(release_name, open \o year \o close)

\* C24: extract_year returns the year of the first form, in the order
\* parenthesized "(YYYY)", square-bracketed "[YYYY]", bare token, that
\* contains a 4-digit number in [1900, 2100]: an in-range parenthesized year
\* wins over any bracketed or bare year, and an in-range bracketed year over
\* any bare year, wherever they stand.  Stated for names with the
\* parenthesized year 1999, the bracketed year 2006 and the bare year 2100.
C24_YearPriority ==
    \A t \in Threads :
        Done(t, "parse")
        => /\ HoldsYear(frames[t].arg, <<"(">>, <<"1","9","9","9">>, <<")">>)
              => frames[t].ret[1].year = Some(1999)
           /\ (/\ HoldsYear(frames[t].arg, <<"[">>, <<"2","0","0","6">>, <<"]">>)
               /\ ~HoldsYear(frames[t].arg, <<"(">>, <<"1","9","9","9">>, <<")">>))
              => frames[t].ret[1].year = Some(2006)

\* the tiers of the cascade that come before the two anime tiers
EarlierTiers(release_name) ==
    << TierEpisodePair(release_name),
       TierEpisodeOnly(release_name),
       TierRange(release_name),
       SinglePattern(ReSxxExx, release_name),
       SinglePattern(ReNxM, release_name),
       SinglePattern(ReSeasonEpisodeWords, release_name) >>

NoneOf(tiers) == \A n \in DOMAIN tiers : ~IsSome(tiers[n])

\* the numbers n and m of the first match of an anime pattern in the name
AnimeNumbers(cap, release_name) ==
    IF cap.ok
    THEN Some([season  |-> ParseInt(Group(release_name, cap, 1)),
               episode |-> ParseInt(Group(release_name, cap, 2))])
    ELSE None

InBounds(found) ==
    IsSome(found) /\ found[1].season \in 1..20 /\ found[1].episode \in 1..200

\* the record has season n and the one episode m
CarriesNumbers(parsed, found) ==
    /\ parsed.season = Some(found[1].season)
    /\ parsed.episode = Some(found[1].episode)
    /\ parsed.episodes = <<found[1].episode>>

\* what the season/episode step leaves in the record of a name that only the
\* anime patterns "S<n> - <m>" (numbers s) and "<n> - <m>" (numbers b) can match
AnimeOutcome(parsed, s, b, release_name) ==
    IF InBounds(s) THEN CarriesNumbers(parsed, s)
    ELSE IF InBounds(b) THEN CarriesNumbers(parsed, b)
    ELSE /\ parsed.season = None
         /\ parsed.episodes = <<>> \/ IsMatch(ReEpisodeWord, release_name)

\* C25: the anime tiers "S<n> - <m>" and bare "<n> - <m>" yield a season and
\* episode only when 1 <= n <= 20 and 1 <= m <= 200; when the matched numbers
\* fall outside these bounds the tier yields nothing.  Stated on the record of
\* a tv call right after the season/episode step, for names no earlier tier
\* matches: the record has the numbers of the first anime tier whose match is
\* within the bounds, and no season and no episode (but that of the word
\* "Episode N") when neither is.
C25_AnimeBounds ==
    \A t \in Threads :
        (/\ frames[t].op = "parse" /\ frames[t].pc = "fields" /\ frames[t].hint = "tv"
         /\ NoneOf(EarlierTiers(frames[t].release_name)))
        => AnimeOutcome(frames[t].parsed,
                        AnimeNumbers(Captures(ReAnimeS, frames[t].release_name),
                                     frames[t].release_name),
                        AnimeNumbers(Captures(ReAnimeBare, frames[t].release_name),
                                     frames[t].release_name),
                        frames[t].release_name)

\* the season/episode step has run on a name whose "<n> - <m>" match has an
\* episode above 200 (and one whose season is above 20): nothing was taken
C25_Witness ==
    \E t \in Threads :
        /\ frames[t].op = "parse" /\ frames[t].pc = "fields" /\ frames[t].hint = "tv"
        /\ frames[t].release_name \in { <<"S","h","o","w"," ","5"," ","-"," ","2","0","1">>, <<"S","2","5"," ","-"," ","0","2">> }
        /\ ~InBounds(AnimeNumbers(Captures(ReAnimeBare, frames[t].release_name),
                                  frames[t].release_name))
        /\ frames[t].parsed.season = None
        /\ frames[t].parsed.episodes = <<>>

\* a bracket at the end of the name, a capitalized word after its last dot
ReTrailingBracket ==
    << Lit(<<"[">>) \o <<Open(1), RepNot({"]"}, 1, Unbounded), Close(1)>> \o Lit(<<"]">>) \o <<Eos>> >>

ReTrailingWord ==
    << Lit(<<".">>)
       \o <<Open(1), One(Upper), Rep(Upper \cup Lower \cup AsciiDigit, 2, 15), Close(1), Eos>> >>

\* the candidate of each group tier, in the order (a) qualifying bracket at
\* the start, (b) qualifying bracket at the end, (c) token after the last
\* hyphen cut at the first dot, (d) trailing capitalized word after a dot
GroupTiers(release_name) ==
    << BracketTier(release_name, Captures(ReLeadingBracket, release_name),
                   3, Alphanumeric \cup {"-", "_", " "}, MetadataTags),
       BracketTier(release_name, Captures(ReTrailingBracket, release_name),
                   2, Alphanumeric \cup {"-", "_"},
                   MetadataTags \o << <<"H","2","6","4">>, <<"A","A","C"," ","2",".","0">> >>),
       AfterLastDash(release_name),
       TrailingWord(release_name, Captures(ReTrailingWord, release_name)) >>

\* the group is the candidate of the first tier of the list that has one, and
\* empty if none has
GroupOfFirst(group, tiers) ==
    /\ \A n \in DOMAIN tiers :
          (IsSome(tiers[n]) /\ \A m \in 1..(n - 1) : ~IsSome(tiers[m]))
          => group = tiers[n][1]
    /\ NoneOf(tiers) => group = <<>>

\* C26: the group is taken from the first tier that yields a candidate, in the
\* order (a) qualifying bracket at the start of the string, (b) qualifying
\* bracket at the end, (c) token after the last hyphen (cut at the first dot),
\* (d) trailing capitalized word after a dot; a later tier is used only if
\* every earlier tier yields nothing, and group is empty if none does.
C26_GroupTierPriority ==
    \A t \in Threads :
        Done(t, "parse") => GroupOfFirst(frames[t].ret[1].group, GroupTiers(frames[t].arg))

\* what holds of the candidates of a name in which a leading bracket, a
\* trailing bracket and the last dash all yield, each a different group
ThreeCandidates(group, tiers) ==
    /\ IsSome(tiers[1]) /\ IsSome(tiers[2]) /\ IsSome(tiers[3])
    /\ tiers[1] /= tiers[2] /\ tiers[1] /= tiers[3]
    /\ group = tiers[1][1]

\* parse has returned for such a name, with the group of the leading bracket
C26_Witness ==
    \E t \in Threads :
        /\ Done(t, "parse")
        /\ ThreeCandidates(frames[t].ret[1].group, GroupTiers(frames[t].arg))

\* the file name of the path without its extension
StemOf(file_path) == file_stem(PathOf(Normalize(file_path)))[1]

\* the directory segment, if there is one: the grandparent's name when the
\* parent is a season directory, the parent's name otherwise
SegmentOf(file_path, season) ==
    IF IsSome(season) THEN GrandparentName(file_path) ELSE ParentName(file_path)

\* the PathInfo is put together from the per-segment parsers
Composed(info, hint, file_path) ==
    /\ info.file = parse(hint, StemOf(file_path))
    /\ IsSome(ParentName(file_path))
    /\ info.season = parse_season_directory(ParentName(file_path)[1])
    /\ IsSome(SegmentOf(file_path, info.season))
    /\ info.directory \in
          { Some(parse_series_directory(SegmentOf(file_path, info.season)[1])),
            Some(parse_movie_directory(SegmentOf(file_path, info.season)[1])) }
    /\ info.full_path = file_path

\* C27: parse_path is the composition of the per-segment parsers: with
\* backslashes treated as "/", file = parse(file name without its extension)
\* with the parser's own hint, season = parse_season_directory(name of the
\* immediate parent), the directory segment is the grandparent name when
\* season is Some and the parent name otherwise, directory = the series or
\* movie directory parser applied to that segment alone, and full_path is the
\* path exactly as given.
C27_PathComposition ==
    \A t \in Threads :
        (Done(t, "parse_path") /\ IsSome(frames[t].ret))
        => Composed(frames[t].ret[1], frames[t].hint, frames[t].arg)

\* parse_path has returned a PathInfo for a path written with backslashes
\* whose parent is a season directory: the directory is parsed from the
\* grandparent's name, which gives another record than the parent's name
C27_Witness ==
    \E t \in Threads :
        /\ Done(t, "parse_path") /\ IsSome(frames[t].ret)
        /\ Contains(frames[t].arg, <<"\\">>)
        /\ IsSome(frames[t].ret[1].season)
        /\ frames[t].ret[1].directory[1].title
              /= parse_series_directory(ParentName(frames[t].arg)[1]).title
        /\ frames[t].ret[1].full_path = frames[t].arg

\* no leading or trailing whitespace and no two whitespace characters in a row
WhitespaceNormalized(s) ==
    /\ Len(s) > 0 => (s[1] \notin Space /\ s[Len(s)] \notin Space)
    /\ \A i \in 1..(Len(s) - 1) : ~(s[i] \in Space /\ s[i + 1] \in Space)

\* C28: every title and episode_title returned by parse,
\* parse_series_directory and parse_movie_directory is whitespace-normalized:
\* it has no leading or trailing whitespace and never two consecutive
\* whitespace characters.
C28_TitlesNormalized ==
    \A t \in Threads :
        (\/ Done(t, "parse")
         \/ Done(t, "parse_series_directory")
         \/ Done(t, "parse_movie_directory"))
        => /\ WhitespaceNormalized(frames[t].ret[1].title)
           /\ WhitespaceNormalized(frames[t].ret[1].episode_title)

\* the numbers that stand in the name as a bracketed token "[N]" of one to
\* four digits, each with its count of digits
BracketedNumbers(release_name, brackets) ==
    { [digits |-> Len(Group(release_name, brackets[i], 1)),
       number |-> ParseInt(Group(release_name, brackets[i], 1))] : i \in 1..Len(brackets) }

\* the bracketed number reads as a year
ReadsAsYear(b) == b.digits = 4 /\ b.number \in 1900..2100

\* the record reports each bracketed number as a year or as an episode, never
\* as both, and as the one its digits make it
OneReading(parsed, numbers) ==
    \A b \in numbers :
        /\ ~(parsed.year = Some(b.number) /\ parsed.episode = Some(b.number))
        /\ ReadsAsYear(b)
              => /\ parsed.episode /= Some(b.number)
                 /\ \A n \in DOMAIN parsed.episodes : parsed.episodes[n] /= b.number
        /\ ~ReadsAsYear(b) => parsed.year /= Some(b.number)

\* C29: year and bracketed episode number are mutually exclusive readings of
\* one token: a bracketed number "[N]" is never reported both as year and as
\* episode; a 4-digit bracketed number in [1900, 2100] is never returned as an
\* episode number, and a bracketed number of 1-3 digits (or of 4 digits
\* outside that range) is never returned as year.
C29_YearOrEpisode ==
    \A t \in Threads :
        Done(t, "parse")
        => OneReading(frames[t].ret[1],
                      BracketedNumbers(frames[t].arg,
                                       CapturesIter(ReEpisodeBracket, frames[t].arg)))

\* parse has returned for a name with the bracketed numbers 119 and 2006: the
\* first is the episode, the second the year
C29_Witness ==
    \E t \in Threads :
        /\ Done(t, "parse")
        /\ Contains(frames[t].arg, <<"[","1","1","9","]">>)
        /\ Contains(frames[t].arg, <<"[","2","0","0","6","]">>)
        /\ frames[t].ret[1].year = Some(2006)
        /\ frames[t].ret[1].episode = Some(119)
        /\ frames[t].ret[1].episodes = <<119>>

\* \[([^\]]+)\]: a square-bracket group and what it holds
ReBracketGroup ==
    << Lit(<<"[">>) \o <<Open(1), RepNot({"]"}, 1, Unbounded), Close(1)>> \o Lit(<<"]">>) >>

\* the codecs the format field can name
Codecs ==
    {formats[n] : n \in DOMAIN formats} \cup {known_formats[n] : n \in DOMAIN known_formats}
    \cup { <<"H",".","2","6","4">>, <<"H",".","2","6","5">> }

\* the bracket groups of the name that hold a codec and nothing else
CodecBrackets(release_name, brackets) ==
    { Group(release_name, brackets[i], 1) : i \in
        { j \in 1..Len(brackets) :
            \E codec \in Codecs : EqIgnoreAsciiCase(Group(release_name, brackets[j], 1), codec) } }

\* the format is that of a bracket group, if a bracket group holds one
BracketFormatFirst(format, codecs) ==
    codecs /= {} => \E codec \in codecs : EqIgnoreAsciiCase(format, codec)

\* the resolution is that of the bracket group "[...-NNNp", if there is one
BracketResolutionFirst(resolution, release_name, cap) ==
    cap.ok => resolution = Group(release_name, cap, 1) \o <<"p">>

\* C30: for resolution and format, a value found inside a square-bracket
\* metadata group ("[...-NNNp...]" for resolution, "[codec]" for format) is
\* returned in preference to any parenthesized or bare value elsewhere in the
\* string, whichever occurs first; the bare scan is used only when no bracket
\* group supplies the field.
C30_BracketFirst ==
    \A t \in Threads :
        Done(t, "parse")
        => /\ BracketResolutionFirst(frames[t].ret[1].resolution, frames[t].arg,
                                     Captures(ReResolutionBracket, frames[t].arg))
           /\ BracketFormatFirst(frames[t].ret[1].format,
                                 CodecBrackets(frames[t].arg,
                                               CapturesIter(ReBracketGroup, frames[t].arg)))

=============================================================================
